---- MODULE Spec2Model ----
(***************************************************************************)
(* State-machine model of the OHPM package crawler (crawler.py) and of the *)
(* keyword classifier (analyzer.py).                                       *)
(*                                                                         *)
(* The crawler part follows main(): the session is opened, page 1 is       *)
(* fetched, one task per remaining page is created, the tasks run          *)
(* concurrently against the registry through the session's connector,      *)
(* asyncio.gather collects their results and the collecting coroutine      *)
(* merges them; main() then saves the snapshot and closes the session.     *)
(***************************************************************************)
EXTENDS Integers, Sequences, FiniteSets, TLC

(***************************************************************************)
(* Bounds of the model.                                                    *)
(***************************************************************************)
\* Largest total-page count the registry announces on page 1.
MaxPages == 3
\* Per-host connection limit of the session's connector.  crawler.py:43 sets
\* limit_per_host=20; the model scales the limit so that a task waiting for
\* a free connection is reachable with MaxPages pages.
limit_per_host == 1

\* Largest number of packages in a snapshot the analyzer is given.
MaxSnapshot == 2
\* Largest number of analyzer method calls in one run.
MaxCalls == 3

Pages == 1..MaxPages

(***************************************************************************)
(* JSON values as Python sees them after json.loads: every value carries   *)
(* its type tag, a dict is a function from its keys to values.             *)
(***************************************************************************)
JNull == [t |-> "null"]
JInt(n) == [t |-> "int", v |-> n]
JStr(s) == [t |-> "str", v |-> s]
JList(s) == [t |-> "list", v |-> s]
JDict(f) == [t |-> "dict", v |-> f]
\* An exception object (what a raising coroutine leaves to its awaiter).
JExc(name) == [t |-> "exc", v |-> name]
\* The literal {} returned by fetch_page on every handled failure.
EmptyDict == JDict(<<>>)

\* asyncio.CancelledError, a BaseException that is no Exception (Python 3.8
\* and later).
CancelledError == [t |-> "baseexc", v |-> "CancelledError"]

IsDict(x) == x.t = "dict"
\* isinstance(x, Exception)
IsExc(x) == x.t = "exc"
\* `key in x` raises TypeError unless x is a container
InRaises(x) == x.t \notin {"dict", "list", "str"}
\* key in d, for a dict d
Has(d, k) == k \in DOMAIN d.v
\* len(x) raises TypeError unless x is a sized value
HasLen(x) == x.t \in {"list", "str", "dict"}
\* Python truthiness: `not x` is ~Truthy(x)
Truthy(x) ==
    CASE x.t = "null" -> FALSE
      [] x.t = "int" -> x.v # 0
      [] x.t = "str" -> x.v # ""
      [] x.t = "list" -> Len(x.v) > 0
      [] x.t = "dict" -> DOMAIN x.v # {}
      [] OTHER -> TRUE

(***************************************************************************)
(* The Package dataclass and its normalisation from a raw row.             *)
(***************************************************************************)
NumericFields == {"latestPublishTime", "likes", "points", "popularity"}
StringFields ==
    {"name", "description", "org", "packageType", "latestVersion", "license",
     "authorName", "publisherId", "publisherName", "authorPicUrl"}
Fields == StringFields \cup NumericFields

\* FieldDefault with every default the empty string (the numeric fields'
\* default 0 forgotten).
FieldDefault_AllEmpty(f) == JStr("")

\* The default of pkg_data.get(field, default) at crawler.py:149-162.
FieldDefault(f) == IF f \in NumericFields THEN JInt(0) ELSE JStr("")

\* Package(name=pkg_data.get('name', ''), ...): every field is the row's
\* value when the key is present and the default otherwise.
Package(pkg_data) ==
    [f \in Fields |-> IF Has(pkg_data, f) THEN pkg_data.v[f] ELSE FieldDefault(f)]

\* pkg_data.get raises AttributeError unless the row is a dict; the
\* exception is caught per row (crawler.py:165) and the row is skipped.
RowRaises(pkg_data) == ~IsDict(pkg_data)

\* process_rows that skips a row whose name a retained package already has
\* (deduplication by name).
RECURSIVE process_rows_Dedup(_, _)
process_rows_Dedup(pkgs, rows) ==
    IF rows = <<>> THEN pkgs
    ELSE process_rows_Dedup(
            IF RowRaises(Head(rows)) THEN pkgs
            ELSE IF \E i \in 1..Len(pkgs) : pkgs[i].name = Package(Head(rows)).name
            THEN pkgs
            ELSE Append(pkgs, Package(Head(rows))),
            Tail(rows))

RECURSIVE process_rows(_, _)
process_rows(pkgs, rows) ==
    IF rows = <<>> THEN pkgs
    ELSE process_rows(
            IF RowRaises(Head(rows)) THEN pkgs
            ELSE Append(pkgs, Package(Head(rows))),
            Tail(rows))

\* _process_page_data: page_data is a dict here (fetch_page returns no body
\* that is not one); a sized rows value that is not a list gets past
\* fetch_page only when it is empty, so there is nothing to iterate.
process_page_data(pkgs, page_data) ==
    IF ~Truthy(page_data) \/ ~Has(page_data, "rows") THEN pkgs
    ELSE IF page_data.v.rows.t # "list" THEN pkgs
    ELSE process_rows(pkgs, page_data.v.rows.v)

(***************************************************************************)
(* The registry's answer to one request, as the session delivers it.       *)
(*   kind "error"   : aiohttp raises a connection error                    *)
(*   kind "timeout" : the 30 s ClientTimeout expires                       *)
(*   kind "http"    : a response with a status and a text; json says       *)
(*                    whether json.loads accepts the text, data is the     *)
(*                    value it yields                                      *)
(***************************************************************************)
NoResp == [kind |-> "none", status |-> 0, json |-> FALSE, data |-> JNull]
ConnError == [kind |-> "error", status |-> 0, json |-> FALSE, data |-> JNull]
Timeout == [kind |-> "timeout", status |-> 0, json |-> FALSE, data |-> JNull]
Http(status, data) == [kind |-> "http", status |-> status, json |-> TRUE, data |-> data]
HttpText(status) == [kind |-> "http", status |-> status, json |-> FALSE, data |-> JNull]
\* The task awaiting the response is cancelled: CancelledError is raised at
\* its await.
Cancelled == [kind |-> "cancelled", status |-> 0, json |-> FALSE, data |-> JNull]

\* crawler.py:82-88 and 94: the logging statements that inspect the parsed
\* data.  They raise (AttributeError, TypeError, KeyError) when the data is
\* not a dict, when body is present and not a dict, when rows has no len(),
\* or when rows is non-empty and its first element has no keys().
FirstRowRaises(rows) ==
    CASE rows.t = "list" -> Len(rows.v) > 0 /\ ~IsDict(rows.v[1])
      [] rows.t = "str" -> rows.v # ""
      [] rows.t = "dict" -> DOMAIN rows.v # {}
      [] OTHER -> FALSE

LogRaises(data) ==
    \/ ~IsDict(data)
    \/ /\ Has(data, "body")
       /\ \/ ~IsDict(data.v.body)
          \/ /\ Has(data.v.body, "rows")
             /\ \/ ~HasLen(data.v.body.v.rows)
                \/ FirstRowRaises(data.v.body.v.rows)

\* The body of fetch_page's try block (crawler.py:72-95): the value it
\* returns, or the exception it raises.
fetch_page_try(page_num, resp) ==
    IF resp.kind = "cancelled" THEN CancelledError
    ELSE IF resp.kind = "error" THEN JExc("ClientError")
    ELSE IF resp.kind = "timeout" THEN JExc("TimeoutError")
    ELSE IF resp.status # 200 THEN EmptyDict
    ELSE IF ~resp.json THEN EmptyDict
    ELSE IF LogRaises(resp.data) THEN JExc("AttributeError")
    ELSE resp.data

\* fetch_page: `except Exception` (crawler.py:96-98) turns every exception
\* of the try block into {}; a CancelledError is no Exception and leaves
\* fetch_page.
fetch_page(page_num, resp) ==
    IF IsExc(fetch_page_try(page_num, resp)) THEN EmptyDict
    ELSE fetch_page_try(page_num, resp)

(***************************************************************************)
(* Payloads the registry is taken to answer with.                          *)
(***************************************************************************)
RowFull ==
    JDict([name |-> JStr("@ohos/axios"), description |-> JStr("http client"),
           org |-> JStr("ohos"), packageType |-> JStr("HAR"),
           latestVersion |-> JStr("2.0.0"), latestPublishTime |-> JInt(1700),
           license |-> JStr("MIT"), authorName |-> JStr("a"),
           publisherId |-> JStr("p1"), publisherName |-> JStr("pub"),
           authorPicUrl |-> JStr("u"), likes |-> JInt(5), points |-> JInt(7),
           popularity |-> JInt(9)])
\* a row without a name and without most optional fields
RowSparse == JDict([description |-> JStr("logging utility"), likes |-> JInt(2)])
\* a row whose name is the empty string
RowEmptyName == JDict([name |-> JStr(""), popularity |-> JInt(1)])
\* a row that is not an object
RowBad == JInt(7)

RowLists ==
    { <<>>, <<RowSparse, RowFull>>, <<RowFull, RowBad>>, <<RowBad, RowFull>>,
      <<RowEmptyName>> }

\* {"body": {"rows": [...]}}: a page after the first; the code reads nothing
\* else of it.
PageData(rows) == JDict([body |-> JDict([rows |-> JList(rows)])])

FailureResponses == {ConnError, Timeout, HttpText(500), HttpText(200)}

TaskResponses ==
    FailureResponses
      \cup {Http(200, EmptyDict)}
      \cup {Http(200, PageData(r)) : r \in RowLists}

\* Values of body.pages on page 1: usable counts, a string and null.
PagesValues == {JInt(n) : n \in 0..MaxPages} \cup {JStr("3"), JNull}

FirstData(pages, rows) ==
    JDict([body |-> JDict([pages |-> pages, total |-> JInt(120),
                           rows |-> JList(rows)])])

FirstResponses ==
    FailureResponses
      \cup {Http(200, EmptyDict), Http(200, JList(<<>>)),
            Http(200, JDict([body |-> EmptyDict]))}
      \cup {Http(200, PageData(<<RowFull>>))}
      \cup {Http(200, JDict([body |-> JDict([pages |-> JInt(2),
                                              rows |-> JList(<<RowFull>>)])]))}
      \cup {Http(200, FirstData(v, r)) : v \in PagesValues, r \in RowLists}

(***************************************************************************)
(* The classifier of analyzer.py.  In this part a str is the sequence of   *)
(* its characters, so that case folding, prefix stripping, substring       *)
(* search and the regular expression's word boundaries can be computed.    *)
(***************************************************************************)
\* _define_categories: the catalog in its definition order (a dict keeps
\* insertion order), each category with its id and its keyword set.
Categories ==
    <<
      [id |-> "testing", keywords |-> {
        <<"a","s","s","e","r","t","i","o","n">>,
        <<"a","u","t","o","m","a","t","i","o","n">>,
        <<"h","y","p","i","u","m">>, <<"m","o","c","k">>, <<"q","a">>,
        <<"q","u","a","l","i","t","y">>, <<"s","p","e","c">>,
        <<"s","u","i","t","e">>, <<"t","e","s","t">>,
        <<"t","e","s","t","i","n","g">>, <<"u","n","i","t">>
      }],
      [id |-> "ui_components", keywords |-> {
        <<"a","n","i","m","a","t","i","o","n">>, <<"b","a","n","n","e","r">>,
        <<"b","u","t","t","o","n">>, <<"c","a","l","e","n","d","a","r">>,
        <<"c","a","r","d">>, <<"c","h","a","r","t">>,
        <<"c","o","m","p","o","n","e","n","t">>, <<"d","e","s","i","g","n">>,
        <<"d","i","a","l","o","g">>, <<"f","o","r","m">>,
        <<"g","e","s","t","u","r","e">>, <<"g","r","a","p","h">>,
        <<"g","r","i","d">>, <<"i","n","p","u","t">>,
        <<"l","a","y","o","u","t">>, <<"l","i","s","t">>,
        <<"l","o","a","d","i","n","g">>, <<"m","e","n","u">>,
        <<"n","a","v","i","g","a","t","i","o","n">>,
        <<"p","i","c","k","e","r">>, <<"r","e","f","r","e","s","h">>,
        <<"s","l","i","d","e","r">>, <<"s","t","y","l","e">>,
        <<"s","w","i","p","e">>, <<"t","a","b">>, <<"t","h","e","m","e">>,
        <<"t","o","a","s","t">>, <<"t","r","a","n","s","i","t","i","o","n">>,
        <<"u","i">>, <<"v","i","s","u","a","l">>
      }],
      [id |-> "utilities", keywords |-> {
        <<"a","l","g","o","r","i","t","h","m">>, <<"a","r","r","a","y">>,
        <<"c","a","c","h","e">>, <<"c","o","l","l","e","c","t","i","o","n">>,
        <<"c","o","m","m","o","n">>, <<"c","o","n","v","e","r","t">>,
        <<"c","s","v">>, <<"d","a","t","e">>, <<"d","e","b","u","g">>,
        <<"d","e","c","r","y","p","t">>, <<"e","n","c","r","y","p","t">>,
        <<"f","i","l","e">>, <<"f","o","r","m","a","t">>, <<"h","a","s","h">>,
        <<"h","e","l","p","e","r">>, <<"i","o">>, <<"j","s","o","n">>,
        <<"l","i","b","r","a","r","y">>, <<"l","o","g">>, <<"m","a","t","h">>,
        <<"o","b","j","e","c","t">>, <<"p","a","r","s","e">>,
        <<"p","e","r","f","o","r","m","a","n","c","e">>,
        <<"r","e","g","e","x">>, <<"s","t","o","r","a","g","e">>,
        <<"s","t","r","i","n","g">>, <<"t","i","m","e">>, <<"t","o","o","l">>,
        <<"u","t","i","l">>, <<"v","a","l","i","d","a","t","i","o","n">>,
        <<"x","m","l">>
      }],
      [id |-> "networking", keywords |-> {
        <<"a","p","i">>, <<"a","u","t","h">>, <<"a","x","i","o","s">>,
        <<"c","l","i","e","n","t">>,
        <<"c","o","m","m","u","n","i","c","a","t","i","o","n">>,
        <<"e","n","d","p","o","i","n","t">>, <<"f","e","t","c","h">>,
        <<"g","r","a","p","h","q","l">>, <<"g","r","p","c">>,
        <<"h","t","t","p">>, <<"j","w","t">>, <<"n","e","t","w","o","r","k">>,
        <<"o","a","u","t","h">>, <<"p","r","o","t","o","c","o","l">>,
        <<"r","e","q","u","e","s","t">>, <<"r","e","s","t">>, <<"r","p","c">>,
        <<"s","e","r","v","e","r">>, <<"s","o","c","k","e","t">>,
        <<"t","c","p">>, <<"u","d","p">>, <<"u","r","l">>,
        <<"w","e","b","s","o","c","k","e","t">>
      }],
      [id |-> "data_persistence", keywords |-> {
        <<"b","a","c","k","u","p">>, <<"c","a","c","h","e">>,
        <<"c","l","o","u","d">>, <<"c","o","n","f","i","g">>,
        <<"c","r","u","d">>, <<"d","a","t","a","b","a","s","e">>, <<"d","b">>,
        <<"l","o","c","a","l">>, <<"m","e","m","o","r","y">>,
        <<"m","i","g","r","a","t","i","o","n">>, <<"m","o","d","e","l">>,
        <<"o","r","m">>, <<"p","e","r","s","i","s","t","e","n","c","e">>,
        <<"p","r","e","f","e","r","e","n","c","e">>, <<"q","u","e","r","y">>,
        <<"s","c","h","e","m","a">>, <<"s","e","t","t","i","n","g">>,
        <<"s","q","l">>, <<"s","q","l","i","t","e">>,
        <<"s","t","o","r","a","g","e">>, <<"s","y","n","c">>,
        <<"t","r","a","n","s","a","c","t","i","o","n">>
      }],
      [id |-> "media", keywords |-> {
        <<"a","u","d","i","o">>, <<"c","a","m","e","r","a">>,
        <<"c","a","p","t","u","r","e">>, <<"c","o","d","e","c">>,
        <<"c","o","m","p","r","e","s","s">>, <<"d","e","c","o","d","e">>,
        <<"e","d","i","t">>, <<"e","f","f","e","c","t">>,
        <<"e","n","c","o","d","e">>, <<"f","i","l","t","e","r">>,
        <<"f","o","r","m","a","t">>, <<"i","m","a","g","e">>,
        <<"m","e","d","i","a">>, <<"m","u","l","t","i","m","e","d","i","a">>,
        <<"m","u","s","i","c">>, <<"p","h","o","t","o">>, <<"p","l","a","y">>,
        <<"p","l","a","y","e","r">>, <<"r","e","c","o","r","d","e","r">>,
        <<"s","o","u","n","d">>, <<"s","t","r","e","a","m">>,
        <<"v","i","d","e","o">>, <<"v","o","i","c","e">>
      }],
      [id |-> "location_maps", keywords |-> {
        <<"a","d","d","r","e","s","s">>,
        <<"c","o","o","r","d","i","n","a","t","e">>,
        <<"d","i","r","e","c","t","i","o","n">>,
        <<"d","i","s","t","a","n","c","e">>, <<"g","e","o">>, <<"g","p","s">>,
        <<"l","a","t","i","t","u","d","e">>,
        <<"l","o","c","a","t","i","o","n">>,
        <<"l","o","n","g","i","t","u","d","e">>, <<"m","a","p">>,
        <<"m","a","r","k","e","r">>,
        <<"n","a","v","i","g","a","t","i","o","n">>, <<"p","i","n">>,
        <<"p","l","a","c","e">>, <<"p","o","s","i","t","i","o","n">>,
        <<"r","o","u","t","e">>
      }],
      [id |-> "sensors_hardware", keywords |-> {
        <<"a","c","c","e","l","e","r","o","m","e","t","e","r">>,
        <<"b","a","r","o","m","e","t","e","r">>,
        <<"b","a","t","t","e","r","y">>,
        <<"b","i","o","m","e","t","r","i","c">>,
        <<"b","l","u","e","t","o","o","t","h">>,
        <<"c","a","p","a","b","i","l","i","t","y">>,
        <<"c","e","l","l","u","l","a","r">>, <<"c","o","m","p","a","s","s">>,
        <<"d","e","v","i","c","e">>,
        <<"f","i","n","g","e","r","p","r","i","n","t">>,
        <<"g","y","r","o","s","c","o","p","e">>,
        <<"h","a","r","d","w","a","r","e">>, <<"l","i","g","h","t">>,
        <<"n","f","c">>, <<"p","r","e","s","s","u","r","e">>,
        <<"p","r","o","x","i","m","i","t","y">>, <<"s","e","n","s","o","r">>,
        <<"s","y","s","t","e","m">>,
        <<"t","e","m","p","e","r","a","t","u","r","e">>,
        <<"v","i","b","r","a","t","i","o","n">>, <<"w","i","f","i">>
      }],
      [id |-> "security", keywords |-> {
        <<"a","e","s">>, <<"a","u","t","h">>,
        <<"a","u","t","h","e","n","t","i","c","a","t","i","o","n">>,
        <<"a","u","t","h","o","r","i","z","a","t","i","o","n">>,
        <<"b","i","o","m","e","t","r","i","c">>,
        <<"c","e","r","t","i","f","i","c","a","t","e">>,
        <<"c","i","p","h","e","r">>, <<"c","r","y","p","t","o">>,
        <<"d","e","c","r","y","p","t">>, <<"e","n","c","r","y","p","t">>,
        <<"h","a","s","h">>, <<"h","m","a","c">>, <<"j","w","t">>,
        <<"k","e","y">>, <<"m","d","5">>, <<"o","a","u","t","h">>,
        <<"p","a","s","s","w","o","r","d">>, <<"p","r","i","v","a","c","y">>,
        <<"r","s","a">>, <<"s","e","c","u","r","e">>,
        <<"s","e","c","u","r","i","t","y">>, <<"s","h","a">>, <<"s","s","l">>,
        <<"t","l","s">>, <<"t","o","k","e","n">>
      }],
      [id |-> "navigation_routing", keywords |-> {
        <<"b","a","c","k">>, <<"b","o","t","t","o","m">>,
        <<"b","r","e","a","d","c","r","u","m","b">>, <<"d","e","e","p">>,
        <<"d","r","a","w","e","r">>, <<"f","o","r","w","a","r","d">>,
        <<"h","i","s","t","o","r","y">>, <<"l","i","n","k">>, <<"n","a","v">>,
        <<"n","a","v","i","g","a","t","i","o","n">>, <<"p","a","g","e">>,
        <<"r","o","u","t","e">>, <<"r","o","u","t","e","r">>,
        <<"s","c","r","e","e","n">>, <<"s","i","d","e","b","a","r">>,
        <<"s","t","a","c","k">>, <<"t","a","b">>,
        <<"t","r","a","n","s","i","t","i","o","n">>
      }],
      [id |-> "state_management", keywords |-> {
        <<"c","o","n","t","e","x","t">>, <<"d","a","t","a">>,
        <<"d","e","p","e","n","d","e","n","c","y">>, <<"f","l","o","w">>,
        <<"f","l","u","x">>, <<"i","n","j","e","c","t">>,
        <<"m","a","n","a","g","e","r">>, <<"m","o","d","e","l">>,
        <<"o","b","s","e","r","v","a","b","l","e">>,
        <<"p","r","o","v","i","d","e","r">>,
        <<"r","e","a","c","t","i","v","e">>, <<"r","e","d","u","x">>,
        <<"s","e","r","v","i","c","e">>,
        <<"s","i","n","g","l","e","t","o","n">>, <<"s","t","a","t","e">>,
        <<"s","t","o","r","e">>
      }],
      [id |-> "internationalization", keywords |-> {
        <<"c","o","u","n","t","r","y">>, <<"c","u","l","t","u","r","e">>,
        <<"c","u","r","r","e","n","c","y">>, <<"f","o","r","m","a","t">>,
        <<"i","1","8","n">>,
        <<"i","n","t","e","r","n","a","t","i","o","n","a","l">>,
        <<"l","1","0","n">>, <<"l","a","n","g","u","a","g","e">>,
        <<"l","o","c","a","l","e">>,
        <<"l","o","c","a","l","i","z","a","t","i","o","n">>,
        <<"m","u","l","t","i","l","i","n","g","u","a","l">>,
        <<"r","e","g","i","o","n">>, <<"t","i","m","e","z","o","n","e">>,
        <<"t","r","a","n","s","l","a","t","e">>,
        <<"t","r","a","n","s","l","a","t","i","o","n">>
      }],
      [id |-> "animation", keywords |-> {
        <<"a","n","i","m","a","t","e">>,
        <<"a","n","i","m","a","t","i","o","n">>, <<"b","e","z","i","e","r">>,
        <<"b","o","u","n","c","e">>, <<"c","u","b","i","c">>,
        <<"e","a","s","i","n","g">>, <<"e","f","f","e","c","t">>,
        <<"e","l","a","s","t","i","c">>, <<"f","a","d","e">>,
        <<"i","n","t","e","r","p","o","l","a","t","i","o","n">>,
        <<"k","e","y","f","r","a","m","e">>, <<"m","o","t","i","o","n">>,
        <<"r","o","t","a","t","e">>, <<"s","c","a","l","e">>,
        <<"s","l","i","d","e">>, <<"s","p","r","i","n","g">>,
        <<"t","i","m","e","l","i","n","e">>,
        <<"t","r","a","n","s","f","o","r","m">>,
        <<"t","r","a","n","s","i","t","i","o","n">>, <<"t","w","e","e","n">>
      }],
      [id |-> "game_graphics", keywords |-> {
        <<"2","d">>, <<"3","d">>, <<"c","a","n","v","a","s">>,
        <<"c","o","l","l","i","s","i","o","n">>, <<"e","n","g","i","n","e">>,
        <<"g","a","m","e">>, <<"g","a","m","i","n","g">>,
        <<"g","r","a","p","h","i","c","s">>,
        <<"l","i","g","h","t","i","n","g">>,
        <<"m","a","t","e","r","i","a","l">>, <<"m","e","s","h">>,
        <<"o","p","e","n","g","l">>, <<"p","a","r","t","i","c","l","e">>,
        <<"p","h","y","s","i","c","s">>, <<"r","e","n","d","e","r">>,
        <<"s","c","e","n","e">>, <<"s","h","a","d","e","r">>,
        <<"s","p","r","i","t","e">>, <<"t","e","x","t","u","r","e">>,
        <<"w","e","b","g","l">>
      }],
      [id |-> "social_sharing", keywords |-> {
        <<"c","h","a","t">>, <<"c","o","m","m","e","n","t">>,
        <<"d","i","s","c","o","r","d">>, <<"f","a","c","e","b","o","o","k">>,
        <<"f","o","l","l","o","w">>, <<"f","r","i","e","n","d">>,
        <<"i","n","s","t","a","g","r","a","m">>, <<"l","i","k","e">>,
        <<"l","i","n","k","e","d","i","n">>, <<"m","e","s","s","a","g","e">>,
        <<"q","q">>, <<"s","h","a","r","e">>, <<"s","h","a","r","i","n","g">>,
        <<"s","o","c","i","a","l">>, <<"t","e","l","e","g","r","a","m">>,
        <<"t","w","i","t","t","e","r">>, <<"w","e","c","h","a","t">>,
        <<"w","e","i","b","o">>, <<"w","h","a","t","s","a","p","p">>
      }],
      [id |-> "ecommerce_payment", keywords |-> {
        <<"a","l","i","p","a","y">>, <<"b","a","n","k">>,
        <<"b","i","l","l","i","n","g">>, <<"c","a","r","d">>,
        <<"c","a","r","t">>, <<"c","h","e","c","k","o","u","t">>,
        <<"c","u","r","r","e","n","c","y">>, <<"f","i","n","a","n","c","e">>,
        <<"i","n","v","o","i","c","e">>, <<"m","o","n","e","y">>,
        <<"o","r","d","e","r">>, <<"p","a","y">>,
        <<"p","a","y","m","e","n","t">>, <<"p","r","i","c","e">>,
        <<"p","r","o","d","u","c","t">>, <<"r","e","c","e","i","p","t">>,
        <<"s","h","o","p">>, <<"s","t","o","r","e">>,
        <<"t","r","a","n","s","a","c","t","i","o","n">>,
        <<"w","a","l","l","e","t">>, <<"w","e","c","h","a","t","p","a","y">>
      }],
      [id |-> "ar_vr", keywords |-> {
        <<"3","6","0">>, <<"a","r">>, <<"a","u","g","m","e","n","t","e","d">>,
        <<"h","o","l","o","g","r","a","m">>,
        <<"i","m","m","e","r","s","i","v","e">>, <<"m","a","r","k","e","r">>,
        <<"m","i","x","e","d">>, <<"o","v","e","r","l","a","y">>,
        <<"p","a","n","o","r","a","m","a">>, <<"r","e","a","l","i","t","y">>,
        <<"r","e","c","o","g","n","i","t","i","o","n">>,
        <<"s","p","a","t","i","a","l">>, <<"t","r","a","c","k","i","n","g">>,
        <<"v","i","r","t","u","a","l">>, <<"v","r">>
      }],
      [id |-> "ai_ml", keywords |-> {
        <<"a","i">>, <<"a","l","g","o","r","i","t","h","m">>,
        <<"c","l","a","s","s","i","f","i","c","a","t","i","o","n">>,
        <<"c","o","m","p","u","t","e","r">>, <<"d","e","e","p">>,
        <<"d","e","t","e","c","t","i","o","n">>,
        <<"i","n","t","e","l","l","i","g","e","n","t">>,
        <<"l","e","a","r","n","i","n","g">>, <<"m","a","c","h","i","n","e">>,
        <<"m","l">>, <<"m","o","d","e","l">>, <<"n","e","t","w","o","r","k">>,
        <<"n","e","u","r","a","l">>, <<"n","l","p">>, <<"o","c","r">>,
        <<"o","p","e","n","c","v">>,
        <<"p","r","e","d","i","c","t","i","o","n">>,
        <<"p","y","t","o","r","c","h">>,
        <<"r","e","c","o","g","n","i","t","i","o","n">>,
        <<"s","m","a","r","t">>, <<"t","e","n","s","o","r","f","l","o","w">>,
        <<"v","i","s","i","o","n">>
      }],
      [id |-> "iot", keywords |-> {
        <<"a","u","t","o","m","a","t","i","o","n">>, <<"c","l","o","u","d">>,
        <<"c","o","n","n","e","c","t","e","d">>,
        <<"c","o","n","t","r","o","l">>, <<"d","e","v","i","c","e">>,
        <<"e","d","g","e">>, <<"g","a","t","e","w","a","y">>,
        <<"h","o","m","e">>, <<"h","u","b">>, <<"i","o","t">>,
        <<"m","e","s","h">>, <<"m","o","n","i","t","o","r">>,
        <<"m","q","t","t">>, <<"p","r","o","t","o","c","o","l">>,
        <<"r","e","m","o","t","e">>, <<"s","e","n","s","o","r">>,
        <<"s","m","a","r","t">>, <<"w","i","r","e","l","e","s","s">>,
        <<"z","i","g","b","e","e">>
      }],
      [id |-> "productivity", keywords |-> {
        <<"a","n","a","l","y","t","i","c","s">>,
        <<"b","u","s","i","n","e","s","s">>,
        <<"c","a","l","e","n","d","a","r">>, <<"c","h","a","r","t">>,
        <<"c","r","m">>, <<"d","a","s","h","b","o","a","r","d">>,
        <<"d","o","c","u","m","e","n","t">>,
        <<"e","n","t","e","r","p","r","i","s","e">>, <<"e","r","p">>,
        <<"e","x","c","e","l">>, <<"g","r","a","p","h">>,
        <<"o","f","f","i","c","e">>, <<"p","d","f">>,
        <<"p","r","e","s","e","n","t","a","t","i","o","n">>,
        <<"p","r","o","d","u","c","t","i","v","i","t","y">>,
        <<"p","r","o","j","e","c","t">>, <<"r","e","p","o","r","t">>,
        <<"s","c","h","e","d","u","l","e">>,
        <<"s","t","a","t","i","s","t","i","c","s">>, <<"t","a","s","k">>,
        <<"w","o","r","d">>, <<"w","o","r","k","f","l","o","w">>
      }],
      [id |-> "education", keywords |-> {
        <<"a","c","a","d","e","m","i","c">>,
        <<"c","e","r","t","i","f","i","c","a","t","i","o","n">>,
        <<"c","o","u","r","s","e">>, <<"e","d","u","c","a","t","i","o","n">>,
        <<"e","x","a","m">>, <<"g","r","a","d","e">>,
        <<"k","n","o","w","l","e","d","g","e">>,
        <<"l","e","a","r","n","i","n","g">>, <<"l","e","s","s","o","n">>,
        <<"q","u","i","z">>, <<"s","c","h","o","o","l">>,
        <<"s","k","i","l","l">>, <<"s","t","u","d","e","n","t">>,
        <<"s","t","u","d","y">>, <<"t","e","a","c","h","e","r">>,
        <<"t","e","s","t">>, <<"t","r","a","i","n","i","n","g">>,
        <<"t","u","t","o","r","i","a","l">>,
        <<"u","n","i","v","e","r","s","i","t","y">>
      }],
      [id |-> "health_fitness", keywords |-> {
        <<"b","m","i">>, <<"c","a","l","o","r","i","e">>, <<"d","i","e","t">>,
        <<"d","o","c","t","o","r">>, <<"e","x","e","r","c","i","s","e">>,
        <<"f","i","t","n","e","s","s">>, <<"h","e","a","l","t","h">>,
        <<"h","e","a","r","t">>, <<"h","o","s","p","i","t","a","l">>,
        <<"m","e","d","i","c","a","l">>, <<"m","e","d","i","c","i","n","e">>,
        <<"n","u","t","r","i","t","i","o","n">>,
        <<"p","a","t","i","e","n","t">>, <<"r","a","t","e">>,
        <<"s","l","e","e","p">>, <<"s","p","o","r","t">>, <<"s","t","e","p">>,
        <<"t","h","e","r","a","p","y">>, <<"w","e","i","g","h","t">>,
        <<"w","e","l","l","n","e","s","s">>, <<"w","o","r","k","o","u","t">>
      }],
      [id |-> "communication", keywords |-> {
        <<"c","a","l","l">>, <<"c","h","a","t">>,
        <<"c","o","m","m","u","n","i","c","a","t","i","o","n">>,
        <<"c","o","n","f","e","r","e","n","c","e">>,
        <<"c","o","n","v","e","r","s","a","t","i","o","n">>,
        <<"e","m","a","i","l">>, <<"i","m">>, <<"i","n","s","t","a","n","t">>,
        <<"m","e","e","t","i","n","g">>, <<"m","e","s","s","a","g","e">>,
        <<"m","e","s","s","a","g","i","n","g">>,
        <<"n","o","t","i","f","i","c","a","t","i","o","n">>,
        <<"p","u","s","h">>, <<"s","m","s">>, <<"t","a","l","k">>,
        <<"v","i","d","e","o">>, <<"v","o","i","c","e">>
      }]
    >>
NumCategories == Len(Categories)
CategoryIds == {Categories[c].id : c \in 1..NumCategories}

UpperChars ==
    <<"A","B","C","D","E","F","G","H","I","J","K","L","M","N","O","P","Q","R",
      "S","T","U","V","W","X","Y","Z">>
LowerChars ==
    <<"a","b","c","d","e","f","g","h","i","j","k","l","m","n","o","p","q","r",
      "s","t","u","v","w","x","y","z">>
DigitChars == {"0","1","2","3","4","5","6","7","8","9"}
UpperSet == {UpperChars[i] : i \in 1..Len(UpperChars)}
LowerSet == {LowerChars[i] : i \in 1..Len(LowerChars)}
LowerOf ==
    [ch \in UpperSet |->
        LowerChars[CHOOSE i \in 1..Len(UpperChars) : UpperChars[i] = ch]]

\* str.lower(), character by character
LowerChar(ch) == IF ch \in UpperSet THEN LowerOf[ch] ELSE ch
Lower(str) == [i \in 1..Len(str) |-> LowerChar(str[i])]

\* \w of the re module: letters, digits and the underscore
WordChars == UpperSet \cup LowerSet \cup DigitChars \cup {"_"}
IsWordChar(ch) == ch \in WordChars

\* re.sub(r'^@[^/]+/', '', name): a leading @, at least one character that
\* is not a slash, and the first slash are removed.
FirstSlash(name) == CHOOSE j \in 1..Len(name) :
    name[j] = "/" /\ \A k \in 1..(j - 1) : name[k] # "/"
StripOrgPrefix(name) ==
    IF /\ Len(name) >= 3
       /\ name[1] = "@"
       /\ \E j \in 1..Len(name) : name[j] = "/"
       /\ FirstSlash(name) >= 3
    THEN SubSeq(name, FirstSlash(name) + 1, Len(name))
    ELSE name

\* ' '.join(parts)
RECURSIVE JoinSpace(_)
JoinSpace(parts) ==
    IF parts = <<>> THEN <<>>
    ELSE IF Len(parts) = 1 THEN parts[1]
    ELSE parts[1] \o <<" ">> \o JoinSpace(Tail(parts))

\* package.get(key, default)
Get(d, k, default) == IF Has(d, k) THEN d.v[k] ELSE default

\* The keyword parts of _extract_text_features (analyzer.py:201-205).
KeywordParts(keywords) ==
    IF keywords.t = "list"
    THEN [i \in 1..Len(keywords.v) |-> Lower(keywords.v[i].v)]
    ELSE IF keywords.t = "str" /\ Len(keywords.v) > 0
    THEN <<Lower(keywords.v)>>
    ELSE <<>>

extract_text_features(package) ==
    JoinSpace(
        <<StripOrgPrefix(Lower(Get(package, "name", JStr(<<>>)).v)),
          Lower(Get(package, "description", JStr(<<>>)).v)>>
        \o KeywordParts(Get(package, "keywords", JList(<<>>))))

\* keyword occupies text[i .. i + Len(keyword) - 1]
OccursAt(keyword, text, i) ==
    /\ i >= 1
    /\ i + Len(keyword) - 1 <= Len(text)
    /\ \A j \in 1..Len(keyword) : text[i + j - 1] = keyword[j]

\* \b between text[i] and text[i + 1] (i = 0: the start, i = Len: the end):
\* exactly one of the two sides is a word character.
WordAt(text, i) == i >= 1 /\ i <= Len(text) /\ IsWordChar(text[i])
WordBoundary(text, i) == WordAt(text, i) # WordAt(text, i + 1)

\* re.search(r'\b' + re.escape(keyword) + r'\b', text_features)
ExactMatch(keyword, text) ==
    \E i \in 1..Len(text) :
        /\ OccursAt(keyword, text, i)
        /\ WordBoundary(text, i - 1)
        /\ WordBoundary(text, i + Len(keyword) - 1)

\* keyword in text_features
PartialMatch(keyword, text) ==
    \E i \in 1..Len(text) : OccursAt(keyword, text, i)

\* keyword_score with the elif turned into a second if: a whole-word match
\* is also counted as a partial match.
keyword_score_NoElif(keyword, text) ==
    (IF ExactMatch(keyword, text) THEN 2 ELSE 0)
      + (IF PartialMatch(keyword, text) THEN 1 ELSE 0)

\* analyzer.py:223-227, what one keyword adds to score
keyword_score(keyword, text) ==
    IF ExactMatch(keyword, text) THEN 2
    ELSE IF PartialMatch(keyword, text) THEN 1
    ELSE 0

\* category.keywords is a set of str: `for keyword in category.keywords`
\* goes through it in hash order, which differs from one interpreter run to
\* the next.  The orders considered: one listing of the set, the same
\* listing backwards, and the same listing started in its middle.
KeywordOrders == {"forward", "backward", "rotated"}

RECURSIVE Listing(_)
Listing(keywords) ==
    IF keywords = {} THEN <<>>
    ELSE LET keyword == CHOOSE k \in keywords : TRUE
         IN <<keyword>> \o Listing(keywords \ {keyword})

Iteration(keywords, order) ==
    LET l == Listing(keywords)
        n == Len(l)
    IN IF order = "forward" THEN l
       ELSE IF order = "backward" THEN [i \in 1..n |-> l[n + 1 - i]]
       ELSE [i \in 1..n |-> l[((i - 1 + n \div 2) % n) + 1]]

\* The iteration of every category's keywords, per order.
KeywordIterations ==
    [order \in KeywordOrders |->
        [c \in 1..NumCategories |-> Iteration(Categories[c].keywords, order)]]

\* category_score with a break after the first keyword that matches.
RECURSIVE category_score_Break(_, _)
category_score_Break(keywords, text) ==
    IF keywords = <<>> THEN 0
    ELSE IF keyword_score(Head(keywords), text) > 0
    THEN keyword_score(Head(keywords), text)
    ELSE category_score_Break(Tail(keywords), text)

\* analyzer.py:220-227, the loop over category.keywords, gone through in the
\* order of the sequence keywords
RECURSIVE category_score(_, _)
category_score(keywords, text) ==
    IF keywords = <<>> THEN 0
    ELSE keyword_score(Head(keywords), text)
           + category_score(Tail(keywords), text)

\* The score of every category, in catalog order.
Scores(text, order) ==
    [c \in 1..NumCategories |->
        category_score(KeywordIterations[order][c], text)]

\* best_of comparing with >= : a later category with an equal score replaces
\* the current best.
RECURSIVE best_of_LastWins(_, _, _)
best_of_LastWins(scores, c, best) ==
    IF c > NumCategories THEN best
    ELSE best_of_LastWins(scores, c + 1,
                          IF scores[c] >= best.score
                          THEN [category |-> Categories[c].id, score |-> scores[c]]
                          ELSE best)

\* analyzer.py:215-231: best_category and best_score after the categories
\* c..NumCategories were scored, starting from best.
RECURSIVE best_of(_, _, _)
best_of(scores, c, best) ==
    IF c > NumCategories THEN best
    ELSE best_of(scores, c + 1,
                 IF scores[c] > best.score
                 THEN [category |-> Categories[c].id, score |-> scores[c]]
                 ELSE best)

NoBest == [category |-> "None", score |-> 0]

\* Packages a snapshot is taken to hold.
PkgHilog ==
    JDict([name |-> JStr(<<"@","o","r","g","/","h","i","l","o","g">>),
           description |-> JStr(<<"l","o","g","g","i","n","g"," ","u","t","i",
                                  "l","i","t","y"," ","f","o","r"," ","a","p",
                                  "p","s">>),
           popularity |-> JInt(40)])
PkgHttp ==
    JDict([name |-> JStr(<<"@","o","r","g","/","h","t","t","p","-","c","l",
                           "i","e","n","t">>),
           description |-> JStr(<<"s","i","m","p","l","e"," ","h","t","t","p",
                                  " ","c","l","i","e","n","t"," ","l","i","b",
                                  "r","a","r","y">>),
           popularity |-> JInt(90)])
PkgUiKit ==
    JDict([name |-> JStr(<<"@","O","h","o","s","/","U","I","_","K","i","t">>),
           description |-> JStr(<<>>),
           popularity |-> JInt(5)])
PkgTest ==
    JDict([name |-> JStr(<<"t","e","s","t","-","t","e","s","t">>),
           description |-> JStr(<<"T","e","s","t">>),
           popularity |-> JInt(40)])
PkgKeywords ==
    JDict([name |-> JStr(<<"x">>),
           keywords |-> JList(<<JStr(<<"A","n","i","m","a","t","i","o","n">>)>>)])
PkgPlain ==
    JDict([name |-> JStr(<<"@","/","z","z">>),
           description |-> JStr(<<"z","z">>),
           popularity |-> JInt(1)])

PkgTesting ==
    JDict([name |-> JStr(<<"t","e","s","t","i","n","g">>),
           popularity |-> JInt(90)])

SamplePackages ==
    {PkgHilog, PkgHttp, PkgUiKit, PkgTest, PkgKeywords, PkgPlain, PkgTesting}

\* The scores are a function of the package and the catalog alone: they are
\* tabulated once for the packages above and computed for any other.
ScoreTable ==
    [order \in KeywordOrders |->
        [package \in SamplePackages |->
            Scores(extract_text_features(package), order)]]
package_scores(package, order) ==
    IF package \in SamplePackages THEN ScoreTable[order][package]
    ELSE Scores(extract_text_features(package), order)

(***************************************************************************)
(* State.                                                                  *)
(***************************************************************************)
VARIABLES
    mainpc,       \* position of main(): "start", "in_with", "saved", "exited", "crashed"
    phase,        \* position of fetch_all_packages
    session,      \* self.session: "none", "open", "closed"
    called,       \* per page, the number of fetch_page calls made for it
    requested,    \* per page, the number of GET requests issued for it
    net,          \* per page, its fetch: "none", "waiting", "inflight", "done"
    outcome,      \* per page, the response its fetch met
    results,      \* per page >= 2, the value its task ended with
    first_page,   \* the local first_page
    total_pages,  \* the local total_pages
    packages,     \* self.packages
    ret,          \* the list fetch_all_packages returned
    arrival,      \* the pages >= 2 whose page data has arrived, in the order
                  \* of arrival
    file          \* packages.json

\* The state of a PackageAnalyzer (analyzer.py).
VARIABLES
    an_packages,       \* self.packages
    an_categories,     \* per category id, its CategoryInfo.packages
    an_uncategorized,  \* self.uncategorized
    an_scores,         \* last categorize_packages call: per package, the
                       \* score of every category (the local score)
    an_best,           \* last categorize_packages call: per package, the
                       \* locals best_category and best_score
    an_stats,          \* the value the last get_category_stats call returned
    an_calls           \* number of analyzer methods called so far

\* The state of a PackageInsights (insights.py) and of a PackageSearch
\* (search.py), each in a process of its own.
VARIABLES
    in_pc,        \* PackageInsights: "new", "loaded", "done"
    in_packages,  \* PackageInsights.packages
    in_stats,     \* what generate_stats_report returned or raised
    stats_file,   \* package_stats.json
    se_pc,        \* PackageSearch: "new", "loaded", "done"
    se_packages,  \* PackageSearch.packages
    se_out        \* what show_stats printed and how it ended

cvars ==
    <<mainpc, phase, session, called, requested, net, outcome, results,
      first_page, total_pages, packages, ret, arrival>>

avars ==
    <<an_packages, an_categories, an_uncategorized, an_scores, an_best,
      an_stats, an_calls>>

svars ==
    <<in_pc, in_packages, in_stats, stats_file, se_pc, se_packages, se_out>>

vars == <<cvars, file, avars, svars>>

\* show_stats has not run: nothing printed, nothing raised.
NoOutput == [printed |-> <<>>, raised |-> "none"]

\* PackageInsights.__init__ and PackageSearch.__init__; package_stats.json
\* does not exist.
InitTools ==
    /\ in_pc = "new"
    /\ in_packages = <<>>
    /\ in_stats = JNull
    /\ stats_file = JNull
    /\ se_pc = "new"
    /\ se_packages = <<>>
    /\ se_out = NoOutput

NoFile == [exists |-> FALSE, total_packages |-> 0, packages |-> <<>>]

\* OHPMCrawler.__init__ and the start of main().
Init ==
    /\ mainpc = "start"
    /\ phase = "Idle"
    /\ session = "none"
    /\ called = [p \in Pages |-> 0]
    /\ requested = [p \in Pages |-> 0]
    /\ net = [p \in Pages |-> "none"]
    /\ outcome = [p \in Pages |-> NoResp]
    /\ results = [p \in Pages |-> JNull]
    /\ first_page = JNull
    /\ total_pages = JNull
    /\ packages = <<>>
    /\ ret = <<>>
    /\ arrival = <<>>
    /\ file = NoFile
    /\ an_packages = <<>>
    /\ an_categories = [id \in CategoryIds |-> <<>>]
    /\ an_uncategorized = <<>>
    /\ an_scores = <<>>
    /\ an_best = <<>>
    /\ an_stats = <<>>
    /\ an_calls = 0
    /\ InitTools

\* Requests holding one of the connector's connections.
InFlight == Cardinality({p \in Pages : net[p] = "inflight"})

\* ConnectionFree of a connector without a per-host limit.
ConnectionFree_Unlimited == TRUE

\* TCPConnector(limit_per_host=20): a request gets a connection only while
\* fewer than limit_per_host are in use for the host.
ConnectionFree == InFlight < limit_per_host

\* async with OHPMCrawler() as crawler: __aenter__ opens the session.
Enter ==
    /\ mainpc = "start"
    /\ mainpc' = "in_with"
    /\ session' = "open"
    /\ UNCHANGED <<phase, requested, net, outcome, results, first_page,
                   total_pages, packages, ret, file>>
    /\ UNCHANGED arrival
    /\ UNCHANGED called
    /\ UNCHANGED avars
    /\ UNCHANGED svars

\* fetch_all_packages is called and awaits fetch_page(1), which issues the
\* request for page 1.
StartFirstPage ==
    /\ mainpc = "in_with"
    /\ phase = "Idle"
    /\ ConnectionFree
    /\ phase' = "FetchingFirstPage"
    /\ net' = [net EXCEPT ![1] = "inflight"]
    /\ requested' = [requested EXCEPT ![1] = @ + 1]
    /\ UNCHANGED <<mainpc, session, outcome, results, first_page, total_pages,
                   packages, ret, file>>
    /\ UNCHANGED arrival
    /\ called' = [called EXCEPT ![1] = @ + 1]
    /\ UNCHANGED avars
    /\ UNCHANGED svars

\* crawler.py:104 `if not first_page or 'body' not in first_page`
FirstPageFatal(fp) == ~Truthy(fp) \/ ~Has(fp, "body")

\* crawler.py:110 `if not body_data or 'pages' not in body_data`
BodyFatal(body_data) == ~Truthy(body_data) \/ ~Has(body_data, "pages")

\* crawler.py:123 range(2, total_pages + 1), for an int total_pages
RemainingPages(n) == 2..n

\* crawler.py:104-125, the synchronous stretch of fetch_all_packages from
\* the return of fetch_page(1) to the await of gather: where it ends
\* (phase), self.packages, total_pages and the pages it created tasks for.
\*   body_data['total'] raises KeyError before the first page is processed;
\*   total_pages + 1 and range() raise TypeError after it was processed.
AfterFirstPage(fp, pkgs) ==
    IF IsExc(fp)
    THEN [phase |-> "Raised", pkgs |-> pkgs, total |-> JNull, tasks |-> {}]
    ELSE IF FirstPageFatal(fp)
    THEN [phase |-> "Failed", pkgs |-> pkgs, total |-> JNull, tasks |-> {}]
    ELSE IF BodyFatal(fp.v.body)
    THEN [phase |-> "Failed", pkgs |-> pkgs, total |-> JNull, tasks |-> {}]
    ELSE IF ~Has(fp.v.body, "total")
    THEN [phase |-> "Raised", pkgs |-> pkgs, total |-> fp.v.body.v.pages,
          tasks |-> {}]
    ELSE IF fp.v.body.v.pages.t # "int"
    THEN [phase |-> "Raised", pkgs |-> process_page_data(pkgs, fp.v.body),
          total |-> fp.v.body.v.pages, tasks |-> {}]
    ELSE [phase |-> "FetchingRemainingPages",
          pkgs |-> process_page_data(pkgs, fp.v.body),
          total |-> fp.v.body.v.pages,
          tasks |-> RemainingPages(fp.v.body.v.pages.v)]

\* The response to the request for page 1 arrives: fetch_page(1) returns and
\* fetch_all_packages runs on to its next await, its return or its raise.
\* Each task it created (crawler.py:124) is one fetch_page call, which
\* runs up to session.get as soon as gather is awaited.
FirstPageResponse(resp) ==
    /\ phase = "FetchingFirstPage"
    /\ net[1] = "inflight"
    /\ LET fp == fetch_page(1, resp)
           nx == AfterFirstPage(fp, packages)
       IN /\ first_page' = fp
          /\ phase' = nx.phase
          /\ packages' = nx.pkgs
          /\ total_pages' = nx.total
          /\ net' = [p \in Pages |->
                       IF p = 1 THEN "done"
                       ELSE IF p \in nx.tasks THEN "waiting" ELSE net[p]]
          /\ called' = [p \in Pages |->
                          IF p \in nx.tasks THEN called[p] + 1 ELSE called[p]]
    /\ outcome' = [outcome EXCEPT ![1] = resp]
    /\ UNCHANGED <<mainpc, session, requested, results, ret, file>>
    /\ UNCHANGED arrival
    /\ UNCHANGED avars
    /\ UNCHANGED svars

\* A page task runs fetch_page up to session.get: the connector hands it a
\* connection and the request is issued.
TaskStart(p) ==
    /\ phase = "FetchingRemainingPages"
    /\ net[p] = "waiting"
    /\ ConnectionFree
    /\ net' = [net EXCEPT ![p] = "inflight"]
    /\ requested' = [requested EXCEPT ![p] = @ + 1]
    /\ UNCHANGED <<mainpc, phase, session, outcome, results, first_page,
                   total_pages, packages, ret, file>>
    /\ UNCHANGED arrival
    /\ UNCHANGED called
    /\ UNCHANGED avars
    /\ UNCHANGED svars

\* TaskResponse in which the task itself appends the rows of its page to
\* self.packages.
TaskResponse_Appends(p, resp) ==
    /\ phase = "FetchingRemainingPages"
    /\ p >= 2
    /\ net[p] = "inflight"
    /\ net' = [net EXCEPT ![p] = "done"]
    /\ outcome' = [outcome EXCEPT ![p] = resp]
    /\ results' = [results EXCEPT ![p] = fetch_page(p, resp)]
    /\ arrival' = IF Truthy(results'[p]) /\ Has(results'[p], "body")
                  THEN Append(arrival, p) ELSE arrival
    /\ packages' = IF Truthy(results'[p]) /\ Has(results'[p], "body")
                   THEN process_page_data(packages, results'[p].v.body)
                   ELSE packages
    /\ UNCHANGED <<mainpc, phase, session, requested, first_page, total_pages,
                   ret, file>>
    /\ UNCHANGED called
    /\ UNCHANGED avars
    /\ UNCHANGED svars

\* The response of a page task's request arrives and the task ends with
\* fetch_page's return value.
TaskResponse(p, resp) ==
    /\ phase = "FetchingRemainingPages"
    /\ p >= 2
    /\ net[p] = "inflight"
    /\ net' = [net EXCEPT ![p] = "done"]
    /\ outcome' = [outcome EXCEPT ![p] = resp]
    /\ results' = [results EXCEPT ![p] = fetch_page(p, resp)]
    /\ arrival' = IF Truthy(results'[p]) /\ Has(results'[p], "body")
                  THEN Append(arrival, p) ELSE arrival
    /\ UNCHANGED <<mainpc, phase, session, requested, first_page, total_pages,
                   packages, ret, file>>
    /\ UNCHANGED called
    /\ UNCHANGED avars
    /\ UNCHANGED svars

\* A page task is cancelled while its request is in flight: the task ends
\* with the CancelledError, which gather(return_exceptions=True) puts in
\* its result list.
CancelTask(p) ==
    /\ phase = "FetchingRemainingPages"
    /\ p >= 2
    /\ net[p] = "inflight"
    /\ net' = [net EXCEPT ![p] = "done"]
    /\ outcome' = [outcome EXCEPT ![p] = Cancelled]
    /\ results' = [results EXCEPT ![p] = fetch_page(p, Cancelled)]
    /\ UNCHANGED <<mainpc, phase, session, requested, first_page, total_pages,
                   packages, ret, file>>
    /\ UNCHANGED arrival
    /\ UNCHANGED called
    /\ UNCHANGED avars
    /\ UNCHANGED svars

\* ClientTimeout(total=30) also covers the wait for a connection: a task
\* still queued at the connector when its timeout expires ends without
\* having issued its request.
WaitTimeout(p) ==
    /\ phase = "FetchingRemainingPages"
    /\ net[p] = "waiting"
    /\ ~ConnectionFree
    /\ net' = [net EXCEPT ![p] = "done"]
    /\ outcome' = [outcome EXCEPT ![p] = Timeout]
    /\ results' = [results EXCEPT ![p] = fetch_page(p, Timeout)]
    /\ UNCHANGED <<mainpc, phase, session, requested, first_page, total_pages,
                   packages, ret, file>>
    /\ UNCHANGED arrival
    /\ UNCHANGED called
    /\ UNCHANGED avars
    /\ UNCHANGED svars

\* The pages fetch_all_packages created a task for.
TaskPages == {p \in Pages : p >= 2 /\ net[p] # "none"}

\* asyncio.gather(*tasks, return_exceptions=True) completes when every task
\* has ended.
GatherDone ==
    /\ phase = "FetchingRemainingPages"
    /\ \A p \in TaskPages : net[p] = "done"
    /\ phase' = "Aggregating"
    /\ UNCHANGED <<mainpc, session, requested, net, outcome, results,
                   first_page, total_pages, packages, ret, file>>
    /\ UNCHANGED arrival
    /\ UNCHANGED called
    /\ UNCHANGED avars
    /\ UNCHANGED svars

\* crawler.py:133-136, one result of the gather list.
merge_result(pkgs, result) ==
    IF IsExc(result) THEN pkgs
    ELSE IF Truthy(result) /\ Has(result, "body")
    THEN process_page_data(pkgs, result.v.body)
    ELSE pkgs

\* merge_results that stops at the first result holding no page (a break
\* where the code skips).
RECURSIVE merge_results_Break(_, _, _, _)
merge_results_Break(pkgs, res, p, n) ==
    IF p > n THEN pkgs
    ELSE IF IsExc(res[p]) \/ ~(Truthy(res[p]) /\ Has(res[p], "body")) THEN pkgs
    ELSE merge_results_Break(merge_result(pkgs, res[p]), res, p + 1, n)

\* merge_results going through the results from the last page to the first.
RECURSIVE merge_results_Reverse(_, _, _, _)
merge_results_Reverse(pkgs, res, p, n) ==
    IF p > n THEN pkgs
    ELSE merge_results_Reverse(merge_result(pkgs, res[n]), res, p, n - 1)

\* crawler.py:132-136 over the results of pages p..n, in task order.
RECURSIVE merge_results(_, _, _, _)
merge_results(pkgs, res, p, n) ==
    IF p > n THEN pkgs
    ELSE merge_results(merge_result(pkgs, res[p]), res, p + 1, n)

\* crawler.py:133-135: `result and 'body' in result` raises TypeError for a
\* result that is no Exception, is truthy and is no container.
MergeRaises(result) == ~IsExc(result) /\ Truthy(result) /\ InRaises(result)

\* The first of the results of pages p..n at which the loop raises, 0 when
\* it raises at none.
RECURSIVE first_raising(_, _, _)
first_raising(res, p, n) ==
    IF p > n THEN 0
    ELSE IF MergeRaises(res[p]) THEN p
    ELSE first_raising(res, p + 1, n)

\* fetch_all_packages resumes after gather, merges the results and returns
\* self.packages; a result at which the loop raises ends it there, with the
\* results before it merged.
Aggregate ==
    /\ phase = "Aggregating"
    /\ LET r == first_raising(results, 2, total_pages.v)
       IN IF r = 0
          THEN /\ phase' = "Done"
               /\ packages' = merge_results(packages, results, 2, total_pages.v)
               /\ ret' = packages'
          ELSE /\ phase' = "Raised"
               /\ packages' = merge_results(packages, results, 2, r - 1)
               /\ ret' = ret
    /\ UNCHANGED <<mainpc, session, requested, net, outcome, results,
                   first_page, total_pages, file>>
    /\ UNCHANGED arrival
    /\ UNCHANGED called
    /\ UNCHANGED avars
    /\ UNCHANGED svars

\* save_to_json: the snapshot written to packages.json (crawled_at, a
\* timestamp, is left out).
Snapshot(pkgs) ==
    [exists |-> TRUE, total_packages |-> Len(pkgs), packages |-> pkgs]

\* main(), crawler.py:184-185: fetch_all_packages has returned (the abort's
\* [] or self.packages) and crawler.save_to_json() runs.
Save ==
    /\ mainpc = "in_with"
    /\ phase \in {"Failed", "Done"}
    /\ file' = Snapshot(packages)
    /\ mainpc' = "saved"
    /\ UNCHANGED <<phase, session, requested, net, outcome, results,
                   first_page, total_pages, packages, ret>>
    /\ UNCHANGED arrival
    /\ UNCHANGED called
    /\ UNCHANGED avars
    /\ UNCHANGED svars

\* The with block ends: __aexit__ closes the session.
Exit ==
    /\ mainpc = "saved"
    /\ session' = "closed"
    /\ mainpc' = "exited"
    /\ UNCHANGED <<phase, requested, net, outcome, results, first_page,
                   total_pages, packages, ret, file>>
    /\ UNCHANGED arrival
    /\ UNCHANGED called
    /\ UNCHANGED avars
    /\ UNCHANGED svars

\* ExitRaised that leaves the session open.
ExitRaised_NoClose ==
    /\ mainpc = "in_with"
    /\ phase = "Raised"
    /\ mainpc' = "crashed"
    /\ UNCHANGED <<phase, session, requested, net, outcome, results,
                   first_page, total_pages, packages, ret, file>>
    /\ UNCHANGED arrival
    /\ UNCHANGED called
    /\ UNCHANGED avars
    /\ UNCHANGED svars

\* An exception left fetch_all_packages: it leaves the with block through
\* __aexit__, which closes the session, and then leaves main().
ExitRaised ==
    /\ mainpc = "in_with"
    /\ phase = "Raised"
    /\ session' = "closed"
    /\ mainpc' = "crashed"
    /\ UNCHANGED <<phase, requested, net, outcome, results, first_page,
                   total_pages, packages, ret, file>>
    /\ UNCHANGED arrival
    /\ UNCHANGED called
    /\ UNCHANGED avars
    /\ UNCHANGED svars

Next ==
    \/ Enter
    \/ StartFirstPage
    \/ \E resp \in FirstResponses : FirstPageResponse(resp)
    \/ \E p \in Pages : TaskStart(p)
    \/ \E p \in Pages, resp \in TaskResponses : TaskResponse(p, resp)
    \/ \E p \in Pages : WaitTimeout(p)
    \/ GatherDone
    \/ Aggregate
    \/ Save
    \/ Exit
    \/ ExitRaised

Spec == Init /\ [][Next]_vars

\* Runs in which page tasks may also be cancelled.
NextCancel ==
    \/ Next
    \/ \E p \in Pages : CancelTask(p)

SpecCancel == Init /\ [][NextCancel]_vars

\* The event loop runs every task that can run, every issued request is
\* answered and gather resumes the collecting coroutine.
FairSpec ==
    /\ Spec
    /\ WF_vars(\E p \in Pages : TaskStart(p))
    /\ WF_vars(\E p \in Pages, resp \in TaskResponses : TaskResponse(p, resp))
    /\ WF_vars(GatherDone)
    /\ WF_vars(Aggregate)

(***************************************************************************)
(* The analyzer: a PackageAnalyzer on a snapshot file, its methods called  *)
(* in any order.                                                           *)
(***************************************************************************)
\* The snapshots the analyzer is run on.
SampleFiles ==
    {Snapshot(pkgs) :
        pkgs \in UNION {[1..k -> SamplePackages] : k \in 0..MaxSnapshot}}

\* PackageAnalyzer.__init__ beside a packages.json some crawl has written.
InitAnalyzer ==
    /\ mainpc = "start"
    /\ phase = "Idle"
    /\ session = "none"
    /\ called = [p \in Pages |-> 0]
    /\ requested = [p \in Pages |-> 0]
    /\ net = [p \in Pages |-> "none"]
    /\ outcome = [p \in Pages |-> NoResp]
    /\ results = [p \in Pages |-> JNull]
    /\ first_page = JNull
    /\ total_pages = JNull
    /\ packages = <<>>
    /\ ret = <<>>
    /\ arrival = <<>>
    /\ file \in SampleFiles
    /\ an_packages = <<>>
    /\ an_categories = [id \in CategoryIds |-> <<>>]
    /\ an_uncategorized = <<>>
    /\ an_scores = <<>>
    /\ an_best = <<>>
    /\ an_stats = <<>>
    /\ an_calls = 0
    /\ InitTools

\* load_packages: self.packages = data['packages']
load_packages ==
    /\ an_calls < MaxCalls
    /\ file.exists
    /\ an_packages' = file.packages
    /\ an_calls' = an_calls + 1
    /\ UNCHANGED <<cvars, file, an_categories, an_uncategorized, an_scores,
                   an_best, an_stats>>
    /\ UNCHANGED svars

\* assigned_to without the test of the category: a categorized package is
\* appended to every category.
RECURSIVE assigned_to_Every(_, _, _, _)
assigned_to_Every(pkgs, best, id, i) ==
    IF i > Len(pkgs) THEN <<>>
    ELSE (IF best[i].score >= 1 THEN <<pkgs[i]>> ELSE <<>>)
         \o assigned_to_Every(pkgs, best, id, i + 1)

\* analyzer.py:234-235: the packages of pkgs[i..] appended to category id
RECURSIVE assigned_to(_, _, _, _)
assigned_to(pkgs, best, id, i) ==
    IF i > Len(pkgs) THEN <<>>
    ELSE (IF best[i].score >= 1 /\ best[i].category = id
          THEN <<pkgs[i]>> ELSE <<>>)
         \o assigned_to(pkgs, best, id, i + 1)

\* unassigned with a minimum score of 2: a package whose best score is 1 is
\* appended to uncategorized.
RECURSIVE unassigned_Below2(_, _, _)
unassigned_Below2(pkgs, best, i) ==
    IF i > Len(pkgs) THEN <<>>
    ELSE (IF best[i].score >= 2 THEN <<>> ELSE <<pkgs[i]>>)
         \o unassigned_Below2(pkgs, best, i + 1)

\* analyzer.py:237-238: the packages of pkgs[i..] appended to uncategorized
RECURSIVE unassigned(_, _, _)
unassigned(pkgs, best, i) ==
    IF i > Len(pkgs) THEN <<>>
    ELSE (IF best[i].score >= 1 THEN <<>> ELSE <<pkgs[i]>>)
         \o unassigned(pkgs, best, i + 1)

\* categorize_packages: every loaded package is scored against every
\* category and appended to the best category's list or to uncategorized.
categorize_packages ==
    /\ an_calls < MaxCalls
    /\ \E order \in KeywordOrders :
          an_scores' = [i \in 1..Len(an_packages) |->
                           package_scores(an_packages[i], order)]
    /\ an_best' = [i \in 1..Len(an_packages) |-> best_of(an_scores'[i], 1, NoBest)]
    /\ an_categories' = [id \in CategoryIds |->
                            an_categories[id]
                              \o assigned_to(an_packages, an_best', id, 1)]
    /\ an_uncategorized' = an_uncategorized \o unassigned(an_packages, an_best', 1)
    /\ an_calls' = an_calls + 1
    /\ UNCHANGED <<cvars, file, an_packages, an_stats>>
    /\ UNCHANGED svars

\* p.get('popularity', 0)
popularity(p) == Get(p, "popularity", JInt(0)).v

\* sum(p.get('popularity', 0) for p in category.packages)
RECURSIVE sum_popularity(_)
sum_popularity(pkgs) ==
    IF pkgs = <<>> THEN 0
    ELSE popularity(Head(pkgs)) + sum_popularity(Tail(pkgs))

\* The quotient a / b as a value: the fraction in lowest terms.
RECURSIVE GCD(_, _)
GCD(a, b) == IF b = 0 THEN a ELSE GCD(b, a % b)
Quotient(a, b) ==
    LET g == GCD(a, b) IN [num |-> a \div g, den |-> b \div g]

\* top_package taking the first package of the list.
top_package_First(pkgs, i, best) == pkgs[1]

\* max(category.packages, key=...): the first package of pkgs[i..] whose
\* popularity exceeds that of best, and of all before it.
RECURSIVE top_package(_, _, _)
top_package(pkgs, i, best) ==
    IF i > Len(pkgs) THEN best
    ELSE top_package(pkgs, i + 1,
                     IF popularity(pkgs[i]) > popularity(best)
                     THEN pkgs[i] ELSE best)

\* analyzer.py:255-260, the entry of one category
category_stat(id, pkgs) ==
    [id |-> id,
     count |-> Len(pkgs),
     avg_popularity |-> Quotient(sum_popularity(pkgs), Len(pkgs)),
     top_package |-> top_package(pkgs, 2, pkgs[1])]

\* analyzer.py:253-260: the entries of the categories c..NumCategories that
\* hold a package, in catalog order
RECURSIVE category_stats(_, _)
category_stats(cats, c) ==
    IF c > NumCategories THEN <<>>
    ELSE (IF cats[Categories[c].id] # <<>>
          THEN <<category_stat(Categories[c].id, cats[Categories[c].id])>>
          ELSE <<>>)
         \o category_stats(cats, c + 1)

\* sorted(stats.items(), key=count, reverse=True) is stable: an entry goes
\* behind the entries whose count is not smaller.
RECURSIVE insert_by_count(_, _)
insert_by_count(sorted, e) ==
    IF sorted = <<>> THEN <<e>>
    ELSE IF Head(sorted).count >= e.count
    THEN <<Head(sorted)>> \o insert_by_count(Tail(sorted), e)
    ELSE <<e>> \o sorted

RECURSIVE sorted_by_count(_, _)
sorted_by_count(stats, sorted) ==
    IF stats = <<>> THEN sorted
    ELSE sorted_by_count(Tail(stats), insert_by_count(sorted, Head(stats)))

\* get_category_stats: the entries of the categories holding a package,
\* sorted by count.
get_category_stats ==
    /\ an_calls < MaxCalls
    /\ an_stats' = sorted_by_count(category_stats(an_categories, 1), <<>>)
    /\ an_calls' = an_calls + 1
    /\ UNCHANGED <<cvars, file, an_packages, an_categories, an_uncategorized,
                   an_scores, an_best>>
    /\ UNCHANGED svars

NextAnalyzer ==
    \/ load_packages
    \/ categorize_packages
    \/ get_category_stats

SpecAnalyzer == InitAnalyzer /\ [][NextAnalyzer]_vars

(***************************************************************************)
(* The statistics of PackageInsights (insights.py) and PackageSearch       *)
(* (search.py) over the snapshot a crawl has saved.                        *)
(***************************************************************************)
\* a second complete row, of another organization
RowOther ==
    JDict([name |-> JStr("@hms/push"), description |-> JStr(""),
           org |-> JStr("hms"), packageType |-> JStr("HAR"),
           latestVersion |-> JStr("1.0.0"), latestPublishTime |-> JInt(1800),
           license |-> JStr("MIT"), authorName |-> JStr("b"),
           publisherId |-> JStr("p2"), publisherName |-> JStr("pub"),
           authorPicUrl |-> JStr("u"), likes |-> JInt(9), points |-> JInt(1),
           popularity |-> JInt(3)])

\* Records a crawl retains.
CrawledPackages ==
    {Package(r) : r \in {RowFull, RowOther, RowSparse, RowEmptyName}}

\* packages.json as save_to_json writes it after a crawl: up to MaxSnapshot
\* retained records, none after an aborted crawl.
CrawledFiles ==
    {Snapshot(pkgs) :
        pkgs \in UNION {[1..k -> CrawledPackages] : k \in 0..MaxSnapshot}}

\* The tools beside a packages.json some crawl has written.
InitStats ==
    /\ mainpc = "start"
    /\ phase = "Idle"
    /\ session = "none"
    /\ called = [p \in Pages |-> 0]
    /\ requested = [p \in Pages |-> 0]
    /\ net = [p \in Pages |-> "none"]
    /\ outcome = [p \in Pages |-> NoResp]
    /\ results = [p \in Pages |-> JNull]
    /\ first_page = JNull
    /\ total_pages = JNull
    /\ packages = <<>>
    /\ ret = <<>>
    /\ arrival = <<>>
    /\ file \in CrawledFiles
    /\ an_packages = <<>>
    /\ an_categories = [id \in CategoryIds |-> <<>>]
    /\ an_uncategorized = <<>>
    /\ an_scores = <<>>
    /\ an_best = <<>>
    /\ an_stats = <<>>
    /\ an_calls = 0
    /\ InitTools

\* json.load(f)['packages']: asdict(pkg) of every saved record, as a dict
json_packages(f) == [i \in 1..Len(f.packages) |-> JDict(f.packages[i])]

\* sum(pkg.get(k, 0) for pkg in pkgs)
RECURSIVE sum_of(_, _)
sum_of(pkgs, k) ==
    IF pkgs = <<>> THEN 0
    ELSE Get(Head(pkgs), k, JInt(0)).v + sum_of(Tail(pkgs), k)

\* (pkg.get(k) for pkg in pkgs if pkg.get(k))
values_of(pkgs, k) ==
    LET having == SelectSeq(pkgs, LAMBDA p : Truthy(Get(p, k, JNull)))
    IN [i \in 1..Len(having) |-> having[i].v[k]]

\* len(set(...))
unique(vals) == Cardinality({vals[i] : i \in 1..Len(vals)})

\* Counter(...): one entry per value, in the order of first occurrence
RECURSIVE Counter(_, _)
Counter(vals, acc) ==
    IF vals = <<>> THEN acc
    ELSE LET hit == {i \in 1..Len(acc) : acc[i].key = Head(vals)}
         IN Counter(Tail(vals),
                    IF hit = {}
                    THEN Append(acc, [key |-> Head(vals), count |-> 1])
                    ELSE [i \in 1..Len(acc) |->
                            IF i \in hit
                            THEN [acc[i] EXCEPT !.count = @ + 1]
                            ELSE acc[i]])

\* Counter.most_common(n): the n entries of greatest count, equal counts in
\* the order of first occurrence
most_common(counter, n) ==
    LET sorted == sorted_by_count(counter, <<>>)
    IN SubSeq(sorted, 1, IF Len(sorted) < n THEN Len(sorted) ELSE n)

\* max(pkgs, key=lambda p: p.get(k, 0)) of a list that is not empty: the
\* first package of pkgs[i..] whose key exceeds that of best
RECURSIVE max_by(_, _, _, _)
max_by(pkgs, k, i, best) ==
    IF i > Len(pkgs) THEN best
    ELSE max_by(pkgs, k, i + 1,
                IF Get(pkgs[i], k, JInt(0)).v > Get(best, k, JInt(0)).v
                THEN pkgs[i] ELSE best)

\* insights.py:149-160, the dict literal: its entries are evaluated in
\* order, and avg_popularity divides by len(self.packages).
stats_report(pkgs) ==
    IF Len(pkgs) = 0 THEN JExc("ZeroDivisionError")
    ELSE JDict(
        [total_packages |-> JInt(Len(pkgs)),
         total_likes |-> JInt(sum_of(pkgs, "likes")),
         avg_popularity |-> Quotient(sum_of(pkgs, "popularity"), Len(pkgs)),
         unique_orgs |-> JInt(unique(values_of(pkgs, "org"))),
         unique_licenses |-> JInt(unique(values_of(pkgs, "license"))),
         packages_with_description |->
             JInt(Len(values_of(pkgs, "description"))),
         most_popular |-> max_by(pkgs, "popularity", 2, pkgs[1]),
         most_liked |-> max_by(pkgs, "likes", 2, pkgs[1]),
         top_orgs |-> most_common(Counter(values_of(pkgs, "org"), <<>>), 5),
         top_licenses |->
             most_common(Counter(values_of(pkgs, "license"), <<>>), 5)])

\* One printed line of show_stats: its label and the values formatted in it.
Line(label, values) == [label |-> label, values |-> values]

\* search.py:140-162: the lines show_stats prints and the exception it ends
\* with ("none" when it returns).
show_stats_run(pkgs) ==
    LET total == Len(pkgs)
        total_likes == sum_of(pkgs, "likes")
        avg_popularity ==
            IF total > 0 THEN Quotient(sum_of(pkgs, "popularity"), total)
            ELSE Quotient(0, 1)
        with_desc == Len(values_of(pkgs, "description"))
        unique_orgs == unique(values_of(pkgs, "org"))
        unique_licenses == unique(values_of(pkgs, "license"))
        top_popular == max_by(pkgs, "popularity", 2, pkgs[1])
        top_liked == max_by(pkgs, "likes", 2, pkgs[1])
        totals == <<Line("Total packages", <<total>>),
                    Line("Total likes", <<total_likes>>),
                    Line("Average popularity", <<avg_popularity>>)>>
        shares == <<Line("Packages with description",
                         <<with_desc, Quotient(with_desc * 100, total)>>),
                    Line("Unique organizations", <<unique_orgs>>),
                    Line("Unique licenses", <<unique_licenses>>)>>
        popular == <<Line("Most popular",
                          <<top_popular.v.name, top_popular.v.popularity>>)>>
        liked == <<Line("Most liked",
                        <<top_liked.v.name, top_liked.v.likes>>)>>
    IN IF total = 0
       THEN [printed |-> totals, raised |-> "ZeroDivisionError"]
       ELSE IF ~Has(top_popular, "name") \/ ~Has(top_popular, "popularity")
       THEN [printed |-> totals \o shares, raised |-> "KeyError"]
       ELSE IF ~Has(top_liked, "name") \/ ~Has(top_liked, "likes")
       THEN [printed |-> totals \o shares \o popular, raised |-> "KeyError"]
       ELSE [printed |-> totals \o shares \o popular \o liked,
             raised |-> "none"]

\* PackageInsights.load_packages
PackageInsights_load_packages ==
    /\ in_pc = "new"
    /\ file.exists
    /\ in_packages' = json_packages(file)
    /\ in_pc' = "loaded"
    /\ UNCHANGED <<cvars, file, avars, in_stats, stats_file, se_pc,
                   se_packages, se_out>>

\* PackageInsights.generate_stats_report: the report is written to
\* package_stats.json and returned, unless building it raised.
generate_stats_report ==
    /\ in_pc = "loaded"
    /\ in_stats' = stats_report(in_packages)
    /\ stats_file' = IF IsExc(in_stats') THEN stats_file ELSE in_stats'
    /\ in_pc' = "done"
    /\ UNCHANGED <<cvars, file, avars, in_packages, se_pc, se_packages,
                   se_out>>

\* PackageSearch.load_packages, for a packages.json that exists
PackageSearch_load_packages ==
    /\ se_pc = "new"
    /\ file.exists
    /\ se_packages' = json_packages(file)
    /\ se_pc' = "loaded"
    /\ UNCHANGED <<cvars, file, avars, in_pc, in_packages, in_stats,
                   stats_file, se_out>>

\* PackageSearch.show_stats
show_stats ==
    /\ se_pc = "loaded"
    /\ se_out' = show_stats_run(se_packages)
    /\ se_pc' = "done"
    /\ UNCHANGED <<cvars, file, avars, in_pc, in_packages, in_stats,
                   stats_file, se_packages>>

NextStats ==
    \/ PackageInsights_load_packages
    \/ generate_stats_report
    \/ PackageSearch_load_packages
    \/ show_stats

SpecStats == InitStats /\ [][NextStats]_vars

(***************************************************************************)
(* Vocabulary of the properties of the crawler.                            *)
(***************************************************************************)
\* The fetch of page p has ended.
Fetched(p) == net[p] = "done"

\* The registry failed page p in one of the four ways fetch_page names:
\* connection error, timeout, non-200 status, text that is not JSON.
FetchFailed(p) == Fetched(p) /\ outcome[p] \in FailureResponses

\* What fetch_page handed to the collector for page p.
PageResult(p) == IF p = 1 THEN first_page ELSE results[p]

\* Page p was fetched successfully: the collector holds its body.
PageOk(p) ==
    /\ Fetched(p)
    /\ IsDict(PageResult(p))
    /\ Truthy(PageResult(p))
    /\ Has(PageResult(p), "body")

\* Page p ended without a page body for the collector.
PageFailed(p) == Fetched(p) /\ ~PageOk(p)

\* The rows the registry delivered in its response to page p.
RowsOf(p) ==
    IF /\ outcome[p].kind = "http"
       /\ outcome[p].json
       /\ IsDict(outcome[p].data)
       /\ Has(outcome[p].data, "body")
       /\ IsDict(outcome[p].data.v.body)
       /\ Has(outcome[p].data.v.body, "rows")
       /\ outcome[p].data.v.body.v.rows.t = "list"
    THEN outcome[p].data.v.body.v.rows.v
    ELSE <<>>

\* The rows of a list that are JSON objects.
ObjectRows(rows) == SelectSeq(rows, LAMBDA r : r.t = "dict")

RECURSIVE SumPages(_, _)
SumPages(count(_), n) ==
    IF n = 0 THEN 0 ELSE count(n) + SumPages(count, n - 1)

AllRowCount(p) == IF PageOk(p) THEN Len(RowsOf(p)) ELSE 0
ObjectRowCount(p) == IF PageOk(p) THEN Len(ObjectRows(RowsOf(p))) ELSE 0

\* Some retained package carries the fields of row r.
Retained(r) ==
    /\ r.t = "dict"
    /\ \E i \in 1..Len(packages) :
          \A f \in DOMAIN r.v \cap Fields : packages[i][f] = r.v[f]

\* fetch_all_packages returns self.packages and nothing else
\* (crawler.py:100, 139): fetch_page logs a failure and returns {}, the merge
\* loop skips it, and no page number reaches the caller.  The pages the
\* returned value reports as failed:
ReturnedFailures == {}

(***************************************************************************)
(* C1.  If the fetch of page 1 fails, the run ends in the fatal state, no  *)
(* page >= 2 is requested and no snapshot, not even an empty one, is       *)
(* written.  Stated as the claim has it; main() saves unconditionally.     *)
(***************************************************************************)
C1_FirstPageFailureNoSnapshot ==
    FetchFailed(1) =>
        /\ phase = "Failed"
        /\ \A p \in Pages : p >= 2 => requested[p] = 0
        /\ ~file.exists

(***************************************************************************)
(* C2.  If page 1 is fetched but its body has no total-page count, or one  *)
(* that is not an integer, the collection ends in the failed state through *)
(* the abort result, not through an exception, with no page >= 2 fetched   *)
(* and no record retained.  Stated as the claim has it.                    *)
(***************************************************************************)
PagesUnusable ==
    /\ PageOk(1)
    /\ IsDict(first_page.v.body)
    /\ \/ ~Has(first_page.v.body, "pages")
       \/ first_page.v.body.v.pages.t # "int"

C2_BadPageCountAborts ==
    PagesUnusable =>
        /\ phase = "Failed"
        /\ \A p \in Pages : p >= 2 => requested[p] = 0
        /\ packages = <<>>

ObjectRowsMerged ==
    \A p \in Pages : PageOk(p) =>
        \A k \in 1..Len(RowsOf(p)) :
            RowsOf(p)[k].t = "dict" => Retained(RowsOf(p)[k])

C4_FailureListExact ==
    phase = "Done" =>
        ReturnedFailures = {p \in TaskPages : PageFailed(p)}

C6_BoundedInFlight ==
    /\ InFlight <= limit_per_host
    /\ \A p \in Pages : net[p] = "waiting" => requested[p] = 0

\* The limit is reached and a created task is waiting.
C6_Witness ==
    /\ InFlight = limit_per_host
    /\ \E p \in Pages : net[p] = "waiting"

(***************************************************************************)
(* C7.  fetch_page lets no exception escape and, for every failure kind,   *)
(* returns a failure value that identifies the page and the cause and      *)
(* differs from a successful page result.  Stated as the claim has it: two *)
(* failed pages, or two causes, must then differ in the value returned.    *)
(***************************************************************************)
C7_TaggedFailureValue ==
    \A p, q \in Pages :
        (p >= 2 /\ q >= 2 /\ FetchFailed(p) /\ FetchFailed(q)) =>
            /\ ~IsExc(results[p])
            /\ (p # q => results[p] # results[q])

(***************************************************************************)
(* C8.  Every record retained in the package list has a non-empty name.    *)
(* Stated as the claim has it; the code keeps a row without a name.        *)
(***************************************************************************)
C8_NamesNonEmpty ==
    \A i \in 1..Len(packages) :
        packages[i].name.t = "str" /\ packages[i].name.v # ""

(***************************************************************************)
(* C9.  Normalisation gives every retained package all fields: a field the *)
(* row has is copied unchanged, an absent numeric field is 0, an absent    *)
(* string field is the empty string; no row is rejected for a missing      *)
(* field.  The retained packages are, in order, the object rows of page 1  *)
(* and of the merged pages.                                                *)
(***************************************************************************)
RECURSIVE SourceRows(_, _)
SourceRows(p, n) ==
    IF p > n THEN <<>>
    ELSE (IF PageOk(p) /\ (p = 1 \/ phase = "Done")
          THEN ObjectRows(RowsOf(p)) ELSE <<>>)
         \o SourceRows(p + 1, n)

NormalisedFrom(pkg, row) ==
    /\ DOMAIN pkg = Fields
    /\ \A f \in Fields :
          /\ f \in DOMAIN row.v => pkg[f] = row.v[f]
          /\ (f \notin DOMAIN row.v /\ f \in NumericFields) => pkg[f] = JInt(0)
          /\ (f \notin DOMAIN row.v /\ f \notin NumericFields) => pkg[f] = JStr("")

C9_Normalised ==
    phase \in {"FetchingRemainingPages", "Aggregating", "Done"} =>
        LET rows == SourceRows(1, MaxPages)
        IN /\ Len(packages) = Len(rows)
           /\ \A i \in 1..Len(packages) : NormalisedFrom(packages[i], rows[i])

\* A retained package made from a row that lacks numeric and string fields.
C9_Witness ==
    /\ phase = "Done"
    /\ \E i \in 1..Len(packages) :
        /\ packages[i].popularity = JInt(0)
        /\ packages[i].name = JStr("")
        /\ packages[i].likes = JInt(2)

(***************************************************************************)
(* C10.  For every package and every category, the score computed by      *)
(* categorize_packages is 2 for each keyword of the category that occurs   *)
(* as a whole word in the package text plus 1 for each keyword that occurs *)
(* only as a substring; a keyword counts once however often it occurs.     *)
(* A whole word is an occurrence with no word character next to it on      *)
(* either side.                                                            *)
(***************************************************************************)
WholeWord(keyword, text) ==
    \E i \in 1..Len(text) :
        /\ OccursAt(keyword, text, i)
        /\ (i = 1 \/ ~IsWordChar(text[i - 1]))
        /\ \/ i + Len(keyword) - 1 = Len(text)
           \/ ~IsWordChar(text[i + Len(keyword)])

Substring(keyword, text) ==
    \E i \in 1..Len(text) : OccursAt(keyword, text, i)

WholeWords(keywords, text) == {k \in keywords : WholeWord(k, text)}
SubstringsOnly(keywords, text) ==
    {k \in keywords : ~WholeWord(k, text) /\ Substring(k, text)}

\* The claimed score of category c for a package.
ClaimedScore(package, c) ==
    LET text == extract_text_features(package)
    IN 2 * Cardinality(WholeWords(Categories[c].keywords, text))
         + Cardinality(SubstringsOnly(Categories[c].keywords, text))
ClaimedScores ==
    [package \in SamplePackages |->
        [c \in 1..NumCategories |-> ClaimedScore(package, c)]]

C10_ScoreFormula ==
    \A i \in 1..Len(an_scores) : \A c \in 1..NumCategories :
        an_scores[i][c] = ClaimedScores[an_packages[i]][c]

\* Scored: a package with two substring-only keywords of utilities (util,
\* log, the latter twice), and one whose text holds the whole word test three
\* times.
C10_Witness ==
    /\ \E i \in 1..Len(an_scores) :
          an_packages[i] = PkgHilog /\ an_scores[i][3] = 2
    /\ \E i \in 1..Len(an_scores) :
          an_packages[i] = PkgTest /\ an_scores[i][1] = 2

(***************************************************************************)
(* Vocabulary of the properties of the analyzer.                           *)
(***************************************************************************)
\* The largest score of a package and the first category, in catalog order,
\* that reaches it.
MaxScore(s) == CHOOSE m \in {s[c] : c \in 1..NumCategories} :
                   \A c \in 1..NumCategories : s[c] <= m
FirstMax(s) == CHOOSE c \in 1..NumCategories :
                   /\ s[c] = MaxScore(s)
                   /\ \A d \in 1..(c - 1) : s[d] < MaxScore(s)

InList(list, pkg) == \E k \in 1..Len(list) : list[k] = pkg

(***************************************************************************)
(* C11.  If several categories reach the same maximal score >= 1 for a     *)
(* package, categorize_packages assigns it to the one that comes first in  *)
(* the catalog's order: a later category with an equal score never         *)
(* replaces the current best, and the package is put in no such category.  *)
(***************************************************************************)
C11_FirstInCatalogOrder ==
    \A i \in 1..Len(an_scores) :
        LET s == an_scores[i]
            first == FirstMax(s)
        IN MaxScore(s) >= 1 =>
             /\ an_best[i].category = Categories[first].id
             /\ an_best[i].score = MaxScore(s)
             /\ InList(an_categories[Categories[first].id], an_packages[i])
             /\ \A c \in (first + 1)..NumCategories :
                   s[c] = MaxScore(s) =>
                       ~InList(an_categories[Categories[c].id], an_packages[i])

\* A categorized package whose maximal score two categories reach.
C11_Witness ==
    \E i \in 1..Len(an_scores) :
        /\ MaxScore(an_scores[i]) >= 1
        /\ \E c \in (FirstMax(an_scores[i]) + 1)..NumCategories :
              an_scores[i][c] = MaxScore(an_scores[i])
        /\ InList(an_categories[Categories[FirstMax(an_scores[i])].id],
                  an_packages[i])

(***************************************************************************)
(* C12.  A package is in the uncategorized list if and only if its score   *)
(* is 0 against every category; if some score is >= 1 it is in the list of *)
(* a category whose score is the maximum over all categories.              *)
(***************************************************************************)
C12_UncategorizedIffAllZero ==
    \A i \in 1..Len(an_scores) :
        LET s == an_scores[i]
        IN /\ InList(an_uncategorized, an_packages[i])
                <=> (\A c \in 1..NumCategories : s[c] = 0)
           /\ (\E c \in 1..NumCategories : s[c] >= 1) =>
                 /\ an_best[i].score = MaxScore(s)
                 /\ \E c \in 1..NumCategories :
                       /\ s[c] = MaxScore(s)
                       /\ an_best[i].category = Categories[c].id
                       /\ InList(an_categories[Categories[c].id],
                                 an_packages[i])

\* One call has put a package in uncategorized, one whose best score is 1 in
\* a category.
C12_Witness ==
    /\ \E i \in 1..Len(an_scores) :
          /\ \A c \in 1..NumCategories : an_scores[i][c] = 0
          /\ InList(an_uncategorized, an_packages[i])
    /\ \E i \in 1..Len(an_scores) :
          /\ MaxScore(an_scores[i]) = 1
          /\ InList(an_categories[an_best[i].category], an_packages[i])

(***************************************************************************)
(* C13.  Classifying the same package against the same catalog twice gives *)
(* the same category and the same score, whatever the order in which each  *)
(* keyword set is gone through and whatever the analyzer holds from        *)
(* earlier calls: within one call equal packages get equal results, and a  *)
(* call on the packages of the call before repeats its scores and results. *)
(***************************************************************************)
C13_SameResult ==
    /\ \A i, j \in 1..Len(an_best') :
          an_packages'[i] = an_packages'[j] =>
              an_best'[i] = an_best'[j] /\ an_scores'[i] = an_scores'[j]
    /\ (/\ an_packages' = an_packages
        /\ Len(an_best) = Len(an_packages)
        /\ Len(an_best') = Len(an_packages'))
         => (an_best' = an_best /\ an_scores' = an_scores)

C13_Deterministic == [][C13_SameResult]_vars

\* Total number of entries of the category lists and the uncategorized list.
RECURSIVE CategorizedTotal(_)
CategorizedTotal(c) ==
    IF c = 0 THEN 0
    ELSE Len(an_categories[Categories[c].id]) + CategorizedTotal(c - 1)
ListedTotal == CategorizedTotal(NumCategories) + Len(an_uncategorized)

\* A snapshot holding twice a package that matches one keyword of testing as
\* a whole word and another as a substring has been classified twice.
C13_Witness ==
    /\ Len(an_best) = 2
    /\ an_packages[1] = PkgTesting
    /\ an_packages[2] = PkgTesting
    /\ an_best[1] = [category |-> "testing", score |-> 3]
    /\ ListedTotal = 4

(***************************************************************************)
(* C14.  After categorize_packages has run on a freshly loaded analyzer    *)
(* (its lists still empty), every loaded package appears exactly once in   *)
(* total across the category lists and the uncategorized list: in one list *)
(* only, as often as the snapshot holds it, and none is missing.           *)
(***************************************************************************)
Count(list, pkg) == Cardinality({k \in 1..Len(list) : list[k] = pkg})

ListsHolding(pkg) ==
    {id \in CategoryIds : InList(an_categories[id], pkg)}
      \cup (IF InList(an_uncategorized, pkg) THEN {"uncategorized"} ELSE {})

RECURSIVE CategorizedCount(_, _)
CategorizedCount(pkg, c) ==
    IF c = 0 THEN 0
    ELSE Count(an_categories[Categories[c].id], pkg)
           + CategorizedCount(pkg, c - 1)

ExactlyOnce ==
    /\ ListedTotal = Len(an_packages)
    /\ \A i \in 1..Len(an_packages) :
          /\ Cardinality(ListsHolding(an_packages[i])) = 1
          /\ CategorizedCount(an_packages[i], NumCategories)
               + Count(an_uncategorized, an_packages[i])
                 = Count(an_packages, an_packages[i])

C14_ExactlyOnce ==
    [][(categorize_packages /\ ListedTotal = 0) => ExactlyOnce']_vars

\* Two loaded packages classified by the first call made after the load, one
\* into a category and one into uncategorized.
C14_Witness ==
    /\ an_calls = 2
    /\ Len(an_packages) = 2
    /\ Len(an_best) = 2
    /\ Len(an_uncategorized) = 1
    /\ ListedTotal = 2

(***************************************************************************)
(* C15.  get_category_stats reports, for every category holding a package, *)
(* a count equal to the number of packages assigned to it, an average equal *)
(* to the sum of their popularity divided by the count and a top package   *)
(* of the category whose popularity no package of it exceeds; a category   *)
(* without a package is not reported; and when the lists hold one          *)
(* classification of the loaded snapshot the report is the one computed    *)
(* from the snapshot and the catalog alone.                                *)
(***************************************************************************)
StatsCorrect(stats, cats) ==
    /\ \A id \in CategoryIds :
          cats[id] # <<>> =>
              \E k \in 1..Len(stats) :
                  /\ stats[k].id = id
                  /\ stats[k].count = Len(cats[id])
                  /\ stats[k].avg_popularity.den > 0
                  /\ stats[k].avg_popularity.num * stats[k].count
                       = sum_popularity(cats[id]) * stats[k].avg_popularity.den
                  /\ InList(cats[id], stats[k].top_package)
                  /\ \A j \in 1..Len(cats[id]) :
                        popularity(stats[k].top_package)
                          >= popularity(cats[id][j])
    /\ \A k \in 1..Len(stats) : cats[stats[k].id] # <<>>
    /\ \A k, l \in 1..Len(stats) : stats[k].id = stats[l].id => k = l

\* The category the claimed scores and the catalog order give a package.
ExpectedCategory(pkg) ==
    IF MaxScore(ClaimedScores[pkg]) >= 1
    THEN Categories[FirstMax(ClaimedScores[pkg])].id
    ELSE "None"

\* The packages of the snapshot that belong to category id, in its order.
ExpectedList(id) ==
    SelectSeq(file.packages, LAMBDA p : ExpectedCategory(p) = id)

OneClassification ==
    an_packages = file.packages /\ ListedTotal = Len(an_packages)

C15_StatsOfLists ==
    get_category_stats =>
        /\ StatsCorrect(an_stats', an_categories)
        /\ OneClassification =>
              /\ \A id \in CategoryIds : an_categories[id] = ExpectedList(id)
              /\ StatsCorrect(an_stats', [id \in CategoryIds |-> ExpectedList(id)])

PhaseTransitions ==
    { <<"Idle", "FetchingFirstPage">>,
      <<"FetchingFirstPage", "Failed">>,
      <<"FetchingFirstPage", "FetchingRemainingPages">>,
      <<"FetchingRemainingPages", "Aggregating">>,
      <<"Aggregating", "Done">> }

C16_PhaseStep ==
    /\ phase' # phase => <<phase, phase'>> \in PhaseTransitions
    /\ \A p \in Pages :
          (p >= 2 /\ requested'[p] > requested[p]) =>
              PageOk(1) /\ total_pages.t = "int"
    /\ (packages' # packages /\ phase # "FetchingFirstPage") =>
          \A p \in TaskPages : net[p] = "done"
    /\ phase \in {"Failed", "Done"} => phase' = phase

C16_PhaseMachine == [][C16_PhaseStep]_vars

(***************************************************************************)
(* C17.  The order of the merged record list.  C17_ArrivalOrder is the     *)
(* claim's wording: the records of the pages >= 2 follow those of page 1   *)
(* in the order in which the pages arrived.  C17_PageOrder is the amended  *)
(* claim: they follow in the order of the page numbers, whatever the order *)
(* of arrival.                                                             *)
(***************************************************************************)
RECURSIVE RecordsOfRows(_)
RecordsOfRows(rows) ==
    IF rows = <<>> THEN <<>>
    ELSE <<Package(Head(rows))>> \o RecordsOfRows(Tail(rows))

\* The records of the object rows of the pages of a sequence, page by page.
RECURSIVE RecordsIn(_)
RecordsIn(order) ==
    IF order = <<>> THEN <<>>
    ELSE RecordsOfRows(ObjectRows(RowsOf(Head(order)))) \o RecordsIn(Tail(order))

\* The successful pages of p..n in the order of their numbers.
RECURSIVE PageOrder(_, _)
PageOrder(p, n) ==
    IF p > n THEN <<>>
    ELSE (IF PageOk(p) THEN <<p>> ELSE <<>>) \o PageOrder(p + 1, n)

C17_ArrivalOrder ==
    phase = "Done" => packages = RecordsIn(<<1>>) \o RecordsIn(arrival)

C17_PageOrder ==
    phase = "Done" =>
        packages = RecordsIn(<<1>>) \o RecordsIn(PageOrder(2, MaxPages))

\* Page 3 arrived before page 2, with different rows, and the run is done.
C17_Witness ==
    /\ phase = "Done"
    /\ arrival = <<3, 2>>
    /\ ObjectRows(RowsOf(2)) # <<>>
    /\ ObjectRows(RowsOf(3)) # <<>>
    /\ ObjectRows(RowsOf(2)) # ObjectRows(RowsOf(3))

(***************************************************************************)
(* C18.  No page task writes to the package list: self.packages changes    *)
(* only in the collecting coroutine, either before a task exists (page 1)  *)
(* or after every task has ended (pages >= 2); a step of a task changes    *)
(* its own result and nothing of the collector's.                          *)
(***************************************************************************)
C18_CollectorStep ==
    /\ packages' # packages =>
          \/ phase = "FetchingFirstPage" /\ TaskPages = {}
          \/ phase = "Aggregating" /\ \A p \in TaskPages : net[p] = "done"
    /\ \A p \in Pages :
          (p >= 2 /\ net'[p] # net[p] /\ phase = "FetchingRemainingPages") =>
              /\ packages' = packages
              /\ ret' = ret
              /\ \A q \in Pages \ {p} : results'[q] = results[q]

C18_SingleWriter == [][C18_CollectorStep]_vars

\* One task has ended with a page holding rows while another has not yet
\* ended, and the package list holds the records of page 1 only.
C18_Witness ==
    /\ phase = "FetchingRemainingPages"
    /\ \E p, q \in TaskPages :
          /\ net[p] = "done" /\ PageOk(p) /\ ObjectRows(RowsOf(p)) # <<>>
          /\ net[q] # "done"
    /\ packages = RecordsIn(<<1>>)
    /\ packages # <<>>

(***************************************************************************)
(* C19.  A page fetch cancelled while in flight is treated like a failed   *)
(* page: it contributes no record, the rows of the other successful pages  *)
(* are merged and the run completes instead of aborting.  Stated as the    *)
(* claim has it, for runs in which a page task is cancelled.               *)
(***************************************************************************)
SomeCancelled == \E p \in Pages : outcome[p] = Cancelled

C19_CancelledLikeFailed ==
    SomeCancelled =>
        /\ phase # "Raised"
        /\ mainpc # "crashed"
        /\ phase = "Done" =>
              packages = RecordsIn(<<1>>) \o RecordsIn(PageOrder(2, MaxPages))

(***************************************************************************)
(* C20.  The session is opened once per run, before the first request, and *)
(* closed when main() leaves the with block, on the success path, on the   *)
(* fatal first-page path and when an exception leaves the run; it is       *)
(* closed only when no page fetch is pending, and every request is issued  *)
(* on the open session.                                                    *)
(***************************************************************************)
C20_SessionStep ==
    /\ session' # session =>
          \/ session = "none" /\ session' = "open" /\ phase = "Idle"
          \/ /\ session = "open" /\ session' = "closed"
             /\ \A p \in Pages : net[p] \in {"none", "done"}
    /\ requested' # requested => session = "open" /\ session' = "open"
    /\ mainpc' \in {"exited", "crashed"} => session' = "closed"
    /\ (phase' \in {"Failed", "Done", "Raised"} /\ session' = "open") =>
          (ENABLED (Save \/ Exit \/ ExitRaised))'

C20_SessionScoped == [][C20_SessionStep]_vars

\* An exception has left the run after page 1 was processed, and the
\* session is closed.
C20_Witness ==
    /\ mainpc = "crashed"
    /\ phase = "Raised"
    /\ packages # <<>>
    /\ session = "closed"

(***************************************************************************)
(* C21.  A malformed record excludes only itself: whatever the position of *)
(* a row that is no object in a page the registry delivered (first row and *)
(* page 1 included), the other rows of the page and the rows of the other  *)
(* pages are retained and the collection goes on to its completion.        *)
(* Stated as the claim has it; fetch_page fails the whole page when its    *)
(* first row is no object.                                                 *)
(***************************************************************************)
\* The registry answered page p with status 200 and a JSON object holding a
\* body with a list of rows.
Delivered(p) ==
    /\ Fetched(p)
    /\ outcome[p].kind = "http"
    /\ outcome[p].status = 200
    /\ outcome[p].json
    /\ IsDict(outcome[p].data)
    /\ Has(outcome[p].data, "body")
    /\ IsDict(outcome[p].data.v.body)
    /\ Has(outcome[p].data.v.body, "rows")
    /\ outcome[p].data.v.body.v.rows.t = "list"

\* Page 1 was delivered with a page count and a total.
FirstDelivered ==
    /\ Delivered(1)
    /\ Has(outcome[1].data.v.body, "pages")
    /\ outcome[1].data.v.body.v.pages.t = "int"
    /\ Has(outcome[1].data.v.body, "total")

C21_MalformedRowOnly ==
    /\ FirstDelivered => phase \notin {"Failed", "Raised"}
    /\ phase = "Done" =>
          \A p \in Pages :
              Delivered(p) =>
                  \A k \in 1..Len(RowsOf(p)) :
                      RowsOf(p)[k].t = "dict" => Retained(RowsOf(p)[k])


(***************************************************************************)
(* C22.  In one run page 1 is requested exactly once and, when it succeeds *)
(* with the page count N, every page of 2..N is requested exactly once and *)
(* no page outside 1..N is requested: no page is requested twice, and for  *)
(* N <= 1 page 1 is the only request.  A page counts as requested when    *)
(* fetch_page was called for it, whether or not the connector then sent   *)
(* the GET.  Stated as the claim has it.                                  *)
(***************************************************************************)
FirstYieldsCount ==
    /\ PageOk(1)
    /\ IsDict(first_page.v.body)
    /\ Has(first_page.v.body, "pages")
    /\ first_page.v.body.v.pages.t = "int"

AnnouncedPages == first_page.v.body.v.pages.v

C22_EachPageOnce ==
    /\ \A p \in Pages : called[p] <= 1 /\ requested[p] <= called[p]
    /\ phase # "Idle" => called[1] = 1 /\ requested[1] = 1
    /\ \A p \in Pages :
          (p >= 2 /\ called[p] > 0) =>
              FirstYieldsCount /\ p <= AnnouncedPages
    /\ FirstYieldsCount =>
          \A p \in Pages :
              (2 <= p /\ p <= AnnouncedPages) => called[p] = 1


(***************************************************************************)
(* C23.  After every categorize_packages call the category lists and the   *)
(* uncategorized list together hold as many entries as there are loaded    *)
(* packages, and a call made when the lists already hold the loaded        *)
(* packages leaves every list as it was.  Stated as the claim has it; the  *)
(* code appends to the lists of the calls before.                          *)
(***************************************************************************)
C23_Step ==
    categorize_packages =>
        /\ ListedTotal' = Len(an_packages')
        /\ (ListedTotal = Len(an_packages) /\ an_packages # <<>>) =>
               UNCHANGED <<an_categories, an_uncategorized>>

C23_ListsHoldLoaded == [][C23_Step]_vars

(***************************************************************************)
(* C24.  For every snapshot a crawl has saved, the empty one included, the *)
(* statistics operations complete and return their result without raising: *)
(* generate_stats_report returns its report and show_stats prints to its   *)
(* last line.  Stated as the claim has it; both divide by the number of    *)
(* packages.                                                               *)
(***************************************************************************)
C24_StatisticsComplete ==
    /\ in_pc = "done" => ~IsExc(in_stats)
    /\ se_pc = "done" => se_out.raised = "none"
====
